---- MODULE Spec2Model ----
\* Model of the gremlin-client message dispatcher (client.rs), the r2d2
\* connection manager (pool.rs) and the protocol selector (io/mod.rs).
\*
\* A caller thread runs one call at a time. The points where a call can be
\* interleaved with another one are the pool checkout, the transport write
\* and the transport read. todo!(), panic!() and unimplemented!() in the
\* source end the call with the outcome "Panic".
EXTENDS Integers, Sequences, FiniteSets, TLC

\* ---------------------------------------------------------------- bounds
MaxCalls == 2
MaxPoolSize == 2

\* the caller threads sharing the clients
Threads == {"t1", "t2"}

\* ------------------------------------------------------------ value sets
None == "None"
NoConn == 0

\* enum IoProtocol
IoProtocol == {"GraphSONV2", "GraphSONV3", "GraphBinaryV1"}

\* the (serializer, deserializer) pairs of the options tried: every protocol
\* on either side, the same on both sides and mixed
ProtocolPairs ==
    {<<"GraphSONV3", "GraphSONV3">>, <<"GraphSONV2", "GraphSONV2">>,
     <<"GraphBinaryV1", "GraphBinaryV1">>, <<"GraphSONV2", "GraphBinaryV1">>,
     <<"GraphBinaryV1", "GraphSONV3">>}

\* status codes a server answers with: the four the code names and one
\* representative of every other code (597, script evaluation error)
Codes == {200, 204, 206, 401, 407, 597}
\* what Uuid::new_v4() returns
NewUuids == {"u1"}
StatusMessages == {"", "denied"}
SessionNames == {"s1"}
ClientIds == {"main", "sess", "ali"}
\* the pools: the one connect builds and the one create_session builds
PoolIds == {"main", "sess"}
AliasNames == {"a1"}

\* GValue, as far as the dispatcher looks into it: a variant tag and a payload
GString(s) == [t |-> "String", v |-> <<s>>]
GInt(i) == [t |-> "Int32", v |-> <<i>>]
GList(s) == [t |-> "List", v |-> s]
GSet(s) == [t |-> "Set", v |-> s]
GMap(m) == [t |-> "Map", v |-> <<m>>]
GBytecode == [t |-> "Bytecode", v |-> <<"g.V()">>]
\* Option<GValue>::None in ResponseResult.data
NoData == [t |-> "None", v |-> <<>>]
ResultData == {NoData, GList(<<GInt(1), GInt(2)>>),
               GSet(<<GInt(2), GInt(1)>>), GInt(1)}

\* struct Response { request_id, result: { data }, status: { code, message } }
Response(id, code, message, data) ==
    [request_id |-> id, code |-> code, message |-> message, data |-> data]

\* what a server may send for a given status code: result data comes with
\* 200 and 206, a status message with the error codes. A response carries
\* the request id the server chose ("u2"), which need not be the id the
\* client generated for its request ("u1" is what Uuid::new_v4() returns).
ResponsesWith(code) ==
    IF code \in {200, 206}
    THEN {Response("u2", code, "", d) : d \in ResultData}
    ELSE IF code = 204
    THEN {Response("u2", code, "", NoData)}
    ELSE {Response("u2", code, m, NoData) : m \in StatusMessages}

\* GremlinError variants and the other ways a call ends
Outcome(tag, code, message, results) ==
    [tag |-> tag, code |-> code, message |-> message, results |-> results]
Pending == Outcome("Pending", 0, "", <<>>)
Panic == Outcome("Panic", 0, "", <<>>)
OkResult(results) == Outcome("Ok", 0, "", results)
RequestError(code, message) == Outcome("Request", code, message, <<>>)
GenericError(message) == Outcome("Generic", 0, message, <<>>)
PoolError == Outcome("Pool", 0, "timed out waiting for connection", <<>>)
IoError(kind) == Outcome(kind, 0, "", <<>>)

\* ------------------------------------------------- requests (message.rs)
\* struct Message { request_id, op, processor, args }
Message(op, processor, id, args) ==
    [op |-> op, processor |-> processor, request_id |-> id, args |-> args]
NoMessage == Message("", "", "", <<>>)
NoResponse == Response("", 0, "", NoData)

\* IoProtocol::write: GraphSON goes to write_graphson, GraphBinaryV1 is todo!()
SerializerWrite(protocol) ==
    IF protocol = "GraphBinaryV1" THEN "Panic" ELSE "Ok"

\* IoProtocol::read_response: GraphSON is parsed, GraphBinaryV1 is todo!()
IoReadResponse(protocol) ==
    IF protocol = "GraphBinaryV1" THEN "Panic" ELSE "Ok"

\* serializer_v2::deserializer_v2 and serializer_v3::deserializer_v3 on a
\* well-formed payload: the GValue it denotes
DeserializeGraphSON(data) == data

\* IoProtocol::read: no value for null data, else the deserializer's value;
\* GraphBinaryV1 is todo!()
IoRead(protocol, data) ==
    IF data = NoData THEN [tag |-> "Ok", some |-> FALSE, value |-> data]
    ELSE IF protocol = "GraphBinaryV1"
    THEN [tag |-> "Panic", some |-> FALSE, value |-> data]
    ELSE [tag |-> "Ok", some |-> TRUE, value |-> DeserializeGraphSON(data)]

\* a conversion without the Set arm (C5 must tell it from the code's)
ToVecDequeListOnly(val) ==
    IF val.t = "List" THEN val.v
    ELSE <<val>>

\* impl From<GValue> for VecDeque<GValue>
ToVecDeque(val) ==
    IF val.t = "List" THEN val.v
    ELSE IF val.t = "Set" THEN val.v
    ELSE <<val>>

\* the alias map of execute: g -> alias when an alias is set, else empty
ExecuteAliases(alias) ==
    IF alias = None THEN <<>> ELSE [g |-> GString(alias)]

\* an argument map that names the session whether or not there is one
\* (C6 must tell it from the code's)
ExecuteArgsAlwaysSession(session, alias) ==
    ("gremlin" :> GString("script"))
    @@ ("language" :> GString("gremlin-groovy"))
    @@ ("aliases" :> GMap(ExecuteAliases(alias)))
    @@ ("bindings" :> GMap(<<>>))
    @@ ("session" :> GString(session))

\* the argument map execute builds
ExecuteArgs(session, alias) ==
    LET base == ("gremlin" :> GString("script"))
                @@ ("language" :> GString("gremlin-groovy"))
                @@ ("aliases" :> GMap(ExecuteAliases(alias)))
                @@ ("bindings" :> GMap(<<>>))
    IN IF session # None
       THEN base @@ ("session" :> GString(session))
       ELSE base

\* a processor choice that ignores the session (C8 must tell it from the
\* code's)
ExecuteProcessorDefault(session) == ""

\* the processor execute addresses
ExecuteProcessor(session) ==
    IF session # None THEN "session" ELSE ""

\* an alias map that is the default whatever the client's alias (C15 must
\* tell it from the code's)
TraversalAliasesDefault(alias) == [g |-> GString("g")]

\* the alias map of submit_traversal: g -> alias, or g -> "g" by default
TraversalAliases(alias) ==
    [g |-> GString(IF alias = None THEN "g" ELSE alias)]

\* IoProtocol::build_traversal_message
BuildTraversalMessage(aliases, id) ==
    Message("bytecode", "traversal", id,
            ("gremlin" :> GBytecode) @@ ("aliases" :> GMap(aliases)))

\* the close request close_session builds
CloseMessage(session_name, id) ==
    Message("close", "session", id, ("session" :> GString(session_name)))

\* the sasl argument: base64 of \0username\0password
SaslArgs == ("sasl" :> GString("base64(\\0username\\0password)"))

\* the authentication request read_response builds in its 407 arm
AuthenticationMessage(response) ==
    Message("authentication", "traversal", response.request_id, SaslArgs)

\* the match on response.status.code in GremlinClient::read_response
ReadResponseMatch(code, credentials) ==
    IF code \in {200, 206} THEN "Results"
    ELSE IF code = 204 THEN "Empty"
    ELSE IF code = 407 /\ credentials THEN "Authenticate"
    ELSE "Request"

\* the result sequence of the 200 | 206 arm
ReadResults(deserializer, data) ==
    LET got == IoRead(deserializer, data)
    IN IF got.tag = "Panic" THEN Panic
       ELSE OkResult(IF got.some THEN ToVecDeque(got.value) ELSE <<>>)

\* an error that drops the status message (C4 must tell it from the code's)
ReadResponseErrorCodeOnly(response) ==
    RequestError(response.code, "")

\* the error of the remaining arms
ReadResponseError(response) ==
    RequestError(response.code, response.message)

\* ------------------------------------------------ health probe (pool.rs)
\* the argument map of the probe's eval
IsValidArgs ==
    ("gremlin" :> GString("g.inject(0)"))
    @@ ("language" :> GString("gremlin-groovy"))

\* IoProtocol::build_message(op, processor, args, request_id)
BuildMessage(op, processor, args, id) == Message(op, processor, id, args)

\* the authentication request of the probe
IsValidAuthMessage(response) ==
    BuildMessage("authentication", "traversal", SaslArgs, response.request_id)

\* the outer match of is_valid
IsValidFirst(code, credentials) ==
    IF code \in {200, 206} THEN "Ok"
    ELSE IF code = 204 THEN "Ok"
    ELSE IF code = 407 /\ credentials THEN "Authenticate"
    ELSE "Request"

\* an inner match that takes a second 407 for a healthy connection (C3 must
\* tell it from the code's)
IsValidSecondAccepts407(code) ==
    IF code \in {200, 206, 204, 401, 407} THEN "Ok" ELSE "Request"

\* an inner match without the 401 arm (C10 must tell it from the code's)
IsValidSecondRejects401(code) ==
    IF code \in {200, 206, 204} THEN "Ok" ELSE "Request"

\* the inner match of is_valid, on the response to the authentication request
IsValidSecond(code) ==
    IF code \in {200, 206} THEN "Ok"
    ELSE IF code = 204 THEN "Ok"
    ELSE IF code = 401 THEN "Ok"
    ELSE "Request"

\* what a server may send to a probe: is_valid looks at the status code, at
\* the request id of a 407 and at the message of an error
ProbeResponsesWith(code) ==
    {Response("u2", code, IF code \in {200, 204, 206} THEN "" ELSE "denied",
              NoData)}

\* ------------------------------------------------------- pool (client.rs)
\* max_size of the pool connect builds
ConnectPoolSize(opts) == opts.pool_size

\* a session pool as large as the parent's (C9 must tell it from the code's)
SessionPoolSizeOfParent(opts) == opts.pool_size

\* max_size of the pool create_session builds
SessionPoolSize(opts) == 1

Conn(st, broken, unread) == [st |-> st, broken |-> broken, unread |-> unread]
FreshConn == Conn("idle", FALSE, 0)

\* Pool::build establishes max_size connections
NewPool(max_size) == [i \in 1..max_size |-> FreshConn]

\* the pool discards a connection and establishes a new one in its place
\* (GremlinConnectionManager::connect)
Replaced == FreshConn

\* a pool that makes every dropped connection idle again, broken or not
\* (C13 must tell it from the code's)
PutBackUnasked(conn) == [conn EXCEPT !.st = "idle"]

\* ManageConnection::has_broken, asked when a checked-out connection is
\* dropped: a broken connection is discarded, any other becomes idle again
PutBack(conn) ==
    IF conn.broken THEN Replaced ELSE [conn EXCEPT !.st = "idle"]


\* ------------------------------------------- GraphBinary (graph_binary_v1.rs)
VERSION_BYTE == 129
VALUE_FLAG == 0
VALUE_NULL_FLAG == 1
INTEGER == 1
LONG == 2
STRING_TYPE == 3
DATE == 4
DOUBLE == 7
FLOAT == 8
LIST == 9
MAP == 10
SET == 11
UUID == 12
EDGE == 13
PATH == 14
PROPERTY == 15
BYTECODE == 21
SCOPE == 31
TRAVERSER == 33
UNSPECIFIED_NULL_OBEJECT == 254

\* the values of the codec: a string is its UTF-8 bytes, a double, a float
\* and a uuid are their big-endian bytes, a date is its milliseconds since
\* the epoch and what it has below the millisecond, a map is its entries in
\* iteration order, bytecode is its steps and its sources
BNull == [t |-> "Null", v |-> <<>>]
BInt32(i) == [t |-> "Int32", v |-> <<i>>]
BInt64(i) == [t |-> "Int64", v |-> <<i>>]
BString(utf8) == [t |-> "String", v |-> utf8]
BDate(millis, below) == [t |-> "Date", v |-> <<millis, below>>]
BDouble(bits) == [t |-> "Double", v |-> bits]
BFloat(bits) == [t |-> "Float", v |-> bits]
BList(items) == [t |-> "List", v |-> items]
BSet(items) == [t |-> "Set", v |-> items]
BMap(entries) == [t |-> "Map", v |-> entries]
BUuid(bytes) == [t |-> "Uuid", v |-> bytes]
BBytecode(steps, sources) == [t |-> "Bytecode", v |-> <<steps, sources>>]
BScope(name) == [t |-> "Scope", v |-> <<name>>]
BVertex == [t |-> "Vertex", v |-> <<>>]
BTraverser(bulk, value) == [t |-> "Traverser", v |-> <<bulk, value>>]
Instruction(operator, args) == [operator |-> operator, args |-> args]

\* the outcome of an encoding: the buffer, or the panic of unimplemented!()
Written(buf) == [tag |-> "Ok", buf |-> buf]
WritePanic == [tag |-> "Panic", buf |-> <<>>]

\* w bytes of a non-negative integer, most significant first
RECURSIVE UnsignedBytes(_, _)
UnsignedBytes(n, w) ==
    IF w = 0 THEN <<>> ELSE Append(UnsignedBytes(n \div 256, w - 1), n % 256)

\* iN::to_le_bytes: the same bytes, least significant first
IntToLeBytes(n, w) ==
    LET ones == UnsignedBytes(IF n >= 0 THEN n ELSE -n - 1, w)
    IN [k \in 1..w |-> IF n >= 0 THEN ones[w + 1 - k] ELSE 255 - ones[w + 1 - k]]

\* iN::to_be_bytes: w bytes of two's complement, most significant first
IntToBeBytes(n, w) ==
    IF n >= 0 THEN UnsignedBytes(n, w)
    ELSE LET ones == UnsignedBytes(-n - 1, w)
         IN [k \in 1..w |-> 255 - ones[k]]

\* impl GraphBinaryV1Ser for &str: {length}{text_value}
StrToBeBytes(utf8) == IntToBeBytes(Len(utf8), 4) \o utf8

\* the UTF-8 bytes of the names of Scope
ScopeUtf8(name) ==
    IF name = "global" THEN <<103, 108, 111, 98, 97, 108>>
    ELSE <<108, 111, 99, 97, 108>>

\* the buffers of a sequence of encodings one after the other, or the panic
\* of the first that panics
RECURSIVE ConcatWritten(_)
ConcatWritten(ws) ==
    IF ws = <<>> THEN Written(<<>>)
    ELSE LET rest == ConcatWritten(Tail(ws))
         IN IF Head(ws).tag = "Panic" \/ rest.tag = "Panic" THEN WritePanic
            ELSE Written(Head(ws).buf \o rest.buf)

\* the type code and value flag in front of a payload
Qualified(code, payload) ==
    IF payload.tag = "Panic" THEN WritePanic
    ELSE Written(<<code, VALUE_FLAG>> \o payload.buf)

\* impl GraphBinaryV1Ser for &GValue (and for &GKey: a String key is written
\* as a String value)
RECURSIVE GValueToBeBytes(_)
GValueToBeBytes(val) ==
    LET items(seq) ==
            ConcatWritten(<<Written(IntToBeBytes(Len(seq), 4))>>
                          \o [k \in 1..Len(seq) |-> GValueToBeBytes(seq[k])])
        entries(seq) ==
            ConcatWritten(<<Written(IntToBeBytes(Len(seq), 4))>>
                          \o [k \in 1..(2 * Len(seq)) |->
                                 GValueToBeBytes(seq[(k + 1) \div 2][2 - (k % 2)])])
        instruction(ins) ==
            ConcatWritten(<<Written(StrToBeBytes(ins.operator)),
                            Written(IntToBeBytes(Len(ins.args), 4))>>
                          \o [k \in 1..Len(ins.args) |->
                                 GValueToBeBytes(ins.args[k])])
        instructions(seq) ==
            ConcatWritten(<<Written(IntToBeBytes(Len(seq), 4))>>
                          \o [k \in 1..Len(seq) |-> instruction(seq[k])])
    IN CASE val.t = "Int32" -> Qualified(INTEGER, Written(IntToBeBytes(val.v[1], 4)))
         [] val.t = "Int64" -> Qualified(LONG, Written(IntToBeBytes(val.v[1], 8)))
         [] val.t = "String" -> Qualified(STRING_TYPE, Written(StrToBeBytes(val.v)))
         [] val.t = "Date" -> Qualified(DATE, Written(IntToBeBytes(val.v[1], 8)))
         [] val.t = "Double" -> Qualified(DOUBLE, Written(val.v))
         [] val.t = "Float" -> Qualified(FLOAT, Written(val.v))
         [] val.t = "List" -> Qualified(LIST, items(val.v))
         [] val.t = "Map" -> Qualified(MAP, entries(val.v))
         [] val.t = "Set" -> Qualified(SET, items(val.v))
         [] val.t = "Uuid" -> Qualified(UUID, Written(val.v))
         [] val.t = "Bytecode" ->
                Qualified(BYTECODE,
                          ConcatWritten(<<instructions(val.v[1]),
                                          instructions(val.v[2])>>))
         [] val.t = "Null" ->
                Written(<<UNSPECIFIED_NULL_OBEJECT, VALUE_NULL_FLAG>>)
         [] val.t = "Scope" ->
                Qualified(SCOPE, GValueToBeBytes(BString(ScopeUtf8(val.v[1]))))
         [] OTHER -> WritePanic


\* the outcome of a decoding: the value and the bytes left after it, a Cast
\* error, or the panic of todo!(), unimplemented!() or expect()
Read(value, rest) == [tag |-> "Ok", value |-> value, rest |-> rest]
CastError == [tag |-> "Cast", value |-> BNull, rest |-> <<>>]
ReadPanic == [tag |-> "Panic", value |-> BNull, rest |-> <<>>]

\* the integers of the model stop here
Saturated == 16777216

\* iN::from_be_bytes: the two's complement integer of big-endian bytes
RECURSIVE UnsignedOf(_)
UnsignedOf(bytes) ==
    IF bytes = <<>> THEN 0
    ELSE 256 * UnsignedOf(SubSeq(bytes, 1, Len(bytes) - 1)) + bytes[Len(bytes)]

\* integers of more than three significant bytes are kept as the integer
\* Saturated, or as -Saturated - 1 below zero: each is longer than any input
\* and outside i16, which is all the decoder asks of them
IntFromBeBytes(bytes) ==
    LET w == Len(bytes)
        magnitude == IF bytes[1] < 128 THEN bytes
                     ELSE [k \in 1..w |-> 255 - bytes[k]]
        low == IF \A k \in 1..(w - 3) : magnitude[k] = 0
               THEN UnsignedOf(SubSeq(magnitude, w - 2, w))
               ELSE Saturated
    IN IF bytes[1] < 128 THEN low ELSE -low - 1

\* bytes.take(n).collect().try_into(): exactly n bytes or a Cast error
TakeArray(bytes, n) ==
    IF Len(bytes) < n THEN CastError
    ELSE Read(SubSeq(bytes, 1, n), SubSeq(bytes, n + 1, Len(bytes)))

\* impl GraphBinaryV1Deser for i32 and for i64
\* .map(i32::from_be_bytes)
IntRead(r) == IF r.tag # "Ok" THEN r ELSE Read(IntFromBeBytes(r.value), r.rest)

I32FromBeBytes(bytes) == IntRead(TakeArray(bytes, 4))
I64FromBeBytes(bytes) == IntRead(TakeArray(bytes, 8))
\* impl GraphBinaryV1Deser for f32, f64 and Uuid
F32FromBeBytes(bytes) == TakeArray(bytes, 4)
F64FromBeBytes(bytes) == TakeArray(bytes, 8)
UuidFromBeBytes(bytes) == TakeArray(bytes, 16)

\* String::from_utf8 of the strings of the model, which are ASCII
FromUtf8Ok(bytes) == \A k \in 1..Len(bytes) : bytes[k] < 128

\* the ? operator: an error or a panic is the outcome, a value goes on
Try(r, Then(_)) == IF r.tag # "Ok" THEN r ELSE Then(r)

\* impl GraphBinaryV1Deser for String
StringFromBeBytes(bytes) ==
    Try(I32FromBeBytes(bytes), LAMBDA length :
        IF length.value < 0 THEN CastError
        ELSE Try(TakeArray(length.rest, length.value), LAMBDA text :
                 IF ~FromUtf8Ok(text.value) THEN CastError ELSE text))

\* Option<T>
Some(x) == [some |-> TRUE, x |-> x]
Absent == [some |-> FALSE, x |-> <<>>]

\* Utc.timestamp_millis_opt: Single for every offset within chrono's range
\* of about 262000 years on either side of the epoch, which holds every
\* offset of the model
ValidTimestampMillis(millis) == millis \in Int

\* GKey::from_gvalue: of the values the decoder returns, a String is a key
GKeyFromGValue(val) == val.t = "String"

\* the GValue of a decoded payload
GValueOf(type, x) ==
    CASE type = "Int32" -> BInt32(x)
      [] type = "Int64" -> BInt64(x)
      [] type = "String" -> BString(x)
      [] type = "Double" -> BDouble(x)
      [] type = "Float" -> BFloat(x)
      [] type = "List" -> BList(x)
      [] type = "Map" -> BMap(x)
      [] type = "Set" -> BSet(x)
      [] type = "Uuid" -> BUuid(x)
      [] type = "Traverser" -> x

\* Some(value) => GValue::X(value), None => GValue::Null
Variant(type, r) ==
    IF r.tag # "Ok" THEN r
    ELSE IF ~r.value.some THEN Read(BNull, r.rest)
    ELSE Read(GValueOf(type, r.value.x), r.rest)

RECURSIVE GValueFromBeBytes(_)
RECURSIVE VecFromBeBytesLoop(_, _, _)
RECURSIVE HashMapFromBeBytesLoop(_, _, _)

\* the loop of impl GraphBinaryV1Deser for Vec<GValue>
VecFromBeBytesLoop(left, list, bytes) ==
    IF left = 0 THEN Read(list, bytes)
    ELSE Try(GValueFromBeBytes(bytes), LAMBDA item :
             VecFromBeBytesLoop(left - 1, Append(list, item.value), item.rest))

\* impl GraphBinaryV1Deser for Vec<GValue>; reserve_exact is taken to get
\* the memory it asks for
VecFromBeBytes(bytes) ==
    Try(I32FromBeBytes(bytes), LAMBDA length :
        IF length.value < 0 THEN CastError
        ELSE VecFromBeBytesLoop(length.value, <<>>, length.rest))

\* map.insert(key, value)
Insert(map, key, value) ==
    Append(SelectSeq(map, LAMBDA e : e[1] # key), <<key, value>>)

\* the loop of impl GraphBinaryV1Deser for HashMap<GKey, GValue>
HashMapFromBeBytesLoop(left, map, bytes) ==
    IF left <= 0 THEN Read(map, bytes)
    ELSE Try(GValueFromBeBytes(bytes), LAMBDA key :
             IF ~GKeyFromGValue(key.value) THEN CastError
             ELSE Try(GValueFromBeBytes(key.rest), LAMBDA value :
                      HashMapFromBeBytesLoop(
                          left - 1, Insert(map, key.value, value.value),
                          value.rest)))

\* impl GraphBinaryV1Deser for HashMap<GKey, GValue>
HashMapFromBeBytes(bytes) ==
    Try(I32FromBeBytes(bytes), LAMBDA map_length :
        HashMapFromBeBytesLoop(map_length.value, <<>>, map_length.rest))

\* impl GraphBinaryV1Deser for Traverser
TraverserFromBeBytes(bytes) ==
    Try(I64FromBeBytes(bytes), LAMBDA bulk :
        Try(GValueFromBeBytes(bulk.rest), LAMBDA value :
            Read(BTraverser(bulk.value, value.value), value.rest)))

\* Self::from_be_bytes of the type read after a value flag
PayloadFromBeBytes(type, bytes) ==
    CASE type = "Int32" -> I32FromBeBytes(bytes)
      [] type \in {"Int64", "Date"} -> I64FromBeBytes(bytes)
      [] type = "String" -> StringFromBeBytes(bytes)
      [] type = "Double" -> F64FromBeBytes(bytes)
      [] type = "Float" -> F32FromBeBytes(bytes)
      [] type \in {"List", "Set"} -> VecFromBeBytes(bytes)
      [] type = "Map" -> HashMapFromBeBytes(bytes)
      [] type = "Uuid" -> UuidFromBeBytes(bytes)
      [] type = "Traverser" -> TraverserFromBeBytes(bytes)

\* .map(Option::Some)
Present(r) == IF r.tag # "Ok" THEN r ELSE Read(Some(r.value), r.rest)

\* GraphBinaryV1Deser::from_be_bytes_nullable: the flag, then the payload
FromBeBytesNullable(type, bytes) ==
    IF bytes = <<>> THEN CastError
    ELSE IF Head(bytes) = VALUE_FLAG
         THEN Present(PayloadFromBeBytes(type, Tail(bytes)))
    ELSE IF Head(bytes) = VALUE_NULL_FLAG THEN Read(Absent, Tail(bytes))
    ELSE CastError

\* the DATE arm: the milliseconds as a DateTime<Utc>
DateOf(r) ==
    IF r.tag # "Ok" THEN r
    ELSE IF ~r.value.some THEN Read(BNull, r.rest)
    ELSE IF ValidTimestampMillis(r.value.x) THEN Read(BDate(r.value.x, 0), r.rest)
    ELSE CastError

\* the variant each working arm of the decoder's match reads
ArmOf(data_code) ==
    CASE data_code = INTEGER -> "Int32"
      [] data_code = LONG -> "Int64"
      [] data_code = STRING_TYPE -> "String"
      [] data_code = DOUBLE -> "Double"
      [] data_code = FLOAT -> "Float"
      [] data_code = LIST -> "List"
      [] data_code = MAP -> "Map"
      [] data_code = SET -> "Set"
      [] data_code = UUID -> "Uuid"
      [] data_code = TRAVERSER -> "Traverser"

\* impl GraphBinaryV1Deser for GValue
GValueFromBeBytes(bytes) ==
    IF bytes = <<>> THEN CastError
    ELSE IF Head(bytes) = DATE
         THEN DateOf(FromBeBytesNullable("Date", Tail(bytes)))
    ELSE IF Head(bytes) \in {EDGE, PATH, PROPERTY} THEN ReadPanic
    ELSE IF Head(bytes) \in {INTEGER, LONG, STRING_TYPE, DOUBLE, FLOAT, LIST,
                             MAP, SET, UUID, TRAVERSER}
         THEN Variant(ArmOf(Head(bytes)),
                      FromBeBytesNullable(ArmOf(Head(bytes)), Tail(bytes)))
    ELSE ReadPanic

\* struct ResponseMessage; result_data None is Absent
ResponseMessage(id, code, message, attributes, meta, data) ==
    [request_id |-> id, status_code |-> code, status_message |-> message,
     status_attributes |-> attributes, result_meta |-> meta,
     result_data |-> data]
NoResponseMessage == ResponseMessage(<<>>, 0, <<>>, <<>>, <<>>, Absent)

\* the outcome of decoding an envelope: the message, a Cast error or a panic,
\* the fields that were read before it, and while it goes on the bytes left
Envelope(tag, message, fields) ==
    [tag |-> tag, message |-> message, fields |-> fields, rest |-> <<>>]
Reading(message, fields, rest) ==
    [tag |-> "Ok", message |-> message, fields |-> fields, rest |-> rest]

\* the fields after the version byte, in the order they are read
Fields ==
    <<"request_id", "status_code", "status_message", "status_attributes",
      "result_meta", "result_data">>

\* the decoder each field is read with
FieldFromBeBytes(field, bytes) ==
    CASE field = "request_id" -> FromBeBytesNullable("Uuid", bytes)
      [] field = "status_code" -> I32FromBeBytes(bytes)
      [] field = "status_message" -> FromBeBytesNullable("String", bytes)
      [] field \in {"status_attributes", "result_meta"} ->
             HashMapFromBeBytes(bytes)
      [] field = "result_data" -> GValueFromBeBytes(bytes)

\* the expect() on a field: request id and status message are not null, the
\* status code fits in i16
Expected(field, value) ==
    CASE field \in {"request_id", "status_message"} -> value.some
      [] field = "status_code" -> value \in -32768..32767
      [] OTHER -> TRUE

\* what the field of the message is set to; result data Null is None
Stored(field, value) ==
    CASE field \in {"request_id", "status_message"} -> value.x
      [] field = "result_data" ->
             IF value.t = "Null" THEN Absent ELSE Some(value)
      [] OTHER -> value

\* one field of the envelope: nothing is read after an error; an error of
\* the field's decoder is the outcome, as is the panic of an expect() that
\* the field does not meet; otherwise the field is stored
ReadField(so_far, field, r) ==
    IF so_far.tag # "Ok" THEN so_far
    ELSE IF r.tag # "Ok" THEN Envelope(r.tag, NoResponseMessage, so_far.fields)
    ELSE IF ~Expected(field, r.value)
         THEN Envelope("Panic", NoResponseMessage, so_far.fields)
    ELSE Reading([so_far.message EXCEPT ![field] = Stored(field, r.value)],
                 Append(so_far.fields, field), r.rest)

ReadNamed(field, so_far) ==
    ReadField(so_far, field, FieldFromBeBytes(field, so_far.rest))

RECURSIVE ReadFields(_, _)
ReadFields(n, bytes) ==
    IF n = 0 THEN Reading(NoResponseMessage, <<"version">>, bytes)
    ELSE ReadNamed(Fields[n], ReadFields(n - 1, bytes))

\* impl GraphBinaryV1Deser for ResponseMessage, after the version byte
Finished(done) == Envelope(done.tag, done.message, done.fields)
ResponseMessageFields(bytes) == Finished(ReadFields(Len(Fields), bytes))

\* a decoder that takes any first byte for the version
ResponseMessageFromBeBytesAnyVersion(bytes) ==
    IF bytes = <<>> THEN Envelope("Cast", NoResponseMessage, <<>>)
    ELSE ResponseMessageFields(Tail(bytes))

\* impl GraphBinaryV1Deser for ResponseMessage
ResponseMessageFromBeBytes(bytes) ==
    IF bytes = <<>> \/ Head(bytes) # VERSION_BYTE
    THEN Envelope("Cast", NoResponseMessage, <<>>)
    ELSE ResponseMessageFields(Tail(bytes))

\* the bytes of a response in the format of struct ResponseMessage:
\* {version}{request_id}{status_code}{status_message}{status_attributes}
\* {result_meta}{result_data}, the two maps empty
ResponseFrame(version, request_id, status_code, status_message, result_data) ==
    <<version, VALUE_FLAG>> \o request_id
        \o IntToBeBytes(status_code, 4)
        \o <<VALUE_FLAG>> \o StrToBeBytes(status_message)
        \o IntToBeBytes(0, 4) \o IntToBeBytes(0, 4)
        \o GValueToBeBytes(result_data).buf


VARIABLES
    options,    \* ConnectionOptions given to connect
    client,     \* the GremlinClient values: session, alias, pool max_size
    conns,      \* the connections of each client's pool
    pc,         \* where each caller thread is in its call
    call,       \* the call each thread is running, with what it wrote and read
    probe,      \* the health probe a thread's checkout is running
    closeTaken, \* per client: how often close_session has taken its session
    ncalls,     \* calls started so far
    codec       \* the GraphBinary buffer being written or read

vars == <<options, client, conns, pc, call, probe, closeTaken, ncalls, codec>>

\* ------------------------------------------------------------ the state
\* the buffer of the codec: the value that was encoded, what the encoder
\* returned, the bytes as they are now, how they came to be (written, then
\* possibly truncated or overwritten, or received as a response frame), and
\* what the decoder returned
Buffer(stage, value, written, bytes, origin, result) ==
    [stage |-> stage, value |-> value, written |-> written, bytes |-> bytes,
     origin |-> origin, result |-> result]
NoEnvelope == Envelope("None", NoResponseMessage, <<>>)
NoRead == [tag |-> "None", value |-> BNull, rest |-> <<>>]
NoBuffer == Buffer("empty", BNull, Written(<<>>), <<>>, "none",
                   [read |-> NoRead, envelope |-> NoEnvelope])

\* a call: the client it runs on and that client's session when it started,
\* the request it built, what it wrote and read on its connection, and how
\* the server would answer the request that follows a 407 (then)
NoCall ==
    [kind |-> "none", client |-> "main", session |-> None, msg |-> NoMessage,
     conn |-> NoConn, writes |-> <<>>, reads |-> <<>>, then |-> <<>>,
     outcome |-> Pending, afterClose |-> FALSE]

\* a health probe: the requests it wrote, the status codes it read, the
\* response it read last, its result and what the pool did with the
\* connection
NoProbe ==
    [writes |-> <<>>, codes |-> <<>>, last |-> NoResponse, result |-> Pending,
     fate |-> "testing"]

NewCall(kind, c, msg, outcome) ==
    [NoCall EXCEPT !.kind = kind, !.client = c, !.session = client[c].session,
                   !.msg = msg, !.outcome = outcome,
                   !.afterClose = closeTaken[c] > 0]

NoClient ==
    [exists |-> FALSE, session |-> None, alias |-> None, max_size |-> 0,
     pool |-> "main"]

\* a connect that rejects options whose two formats differ (C14 must tell it
\* from the code's)
ConnectAcceptsSameFormat(serializer, deserializer) == serializer = deserializer

\* connect builds a client for whatever serializer and deserializer the
\* options name
ConnectAccepts(serializer, deserializer) == TRUE

\* GremlinClient::connect
Init ==
    /\ \E credentials \in BOOLEAN, io \in ProtocolPairs,
          pool_size \in 1..MaxPoolSize :
          options = [credentials |-> credentials, serializer |-> io[1],
                     deserializer |-> io[2], pool_size |-> pool_size]
    /\ client = [c \in ClientIds |->
                    IF c = "main"
                    THEN [exists |-> ConnectAccepts(options.serializer,
                                                    options.deserializer),
                          session |-> None, alias |-> None,
                          max_size |-> ConnectPoolSize(options),
                          pool |-> "main"]
                    ELSE NoClient]
    /\ conns = [p \in PoolIds |->
                    IF p = "main" THEN NewPool(ConnectPoolSize(options))
                    ELSE NewPool(0)]
    /\ pc = [t \in Threads |-> "idle"]
    /\ call = [t \in Threads |-> NoCall]
    /\ probe = [t \in Threads |-> NoProbe]
    /\ closeTaken = [c \in ClientIds |-> 0]
    /\ ncalls = 0
    /\ codec = NoBuffer

\* a thread may start a call; the threads are interchangeable, so the first
\* call is taken to be t1's
CanStart(t, c) ==
    /\ pc[t] = "idle"
    /\ ncalls < MaxCalls
    /\ ncalls = 0 => t = "t1"
    /\ client[c].exists

Started(t, c, rec, next) ==
    /\ call' = [call EXCEPT ![t] = rec]
    /\ pc' = [pc EXCEPT ![t] = next]
    /\ ncalls' = ncalls + 1

\* GremlinClient::create_session
CreateSession(name) ==
    /\ client["main"].exists
    /\ ~client["sess"].exists
    /\ client' = [client EXCEPT !["sess"] =
                     [exists |-> TRUE, session |-> name, alias |-> None,
                      max_size |-> SessionPoolSize(options),
                      pool |-> "sess"]]
    /\ conns' = [conns EXCEPT !["sess"] = NewPool(SessionPoolSize(options))]
    /\ UNCHANGED <<codec, options, pc, call, probe, closeTaken, ncalls>>

\* self.clone() in alias: the fields of the client, the pool field being a
\* handle on the same r2d2 pool
CloneClient(origin) == origin

\* GremlinClient::alias
Alias(c, name) ==
    /\ c \in {"main", "sess"}
    /\ client[c].exists
    /\ ~client["ali"].exists
    /\ client' = [client EXCEPT !["ali"] =
                     [CloneClient(client[c]) EXCEPT !.alias = name]]
    /\ UNCHANGED <<codec, options, conns, pc, call, probe, closeTaken, ncalls>>

\* GremlinClient::execute, up to self.pool.get()
Execute(t, c) ==
    /\ CanStart(t, c)
    /\ IF SerializerWrite(options.serializer) = "Panic"
       THEN Started(t, c, NewCall("execute", c, NoMessage, Panic), "done")
       ELSE \E id \in NewUuids :
               Started(t, c,
                       NewCall("execute", c,
                               Message("eval",
                                       ExecuteProcessor(client[c].session), id,
                                       ExecuteArgs(client[c].session,
                                                   client[c].alias)),
                               Pending),
                       "get")
    /\ UNCHANGED <<codec, options, client, conns, probe, closeTaken>>

\* GremlinClient::submit_traversal: the message is built, then the
\* unconditional panic!() ends the call before self.pool.get()
SubmitTraversal(t, c) ==
    /\ CanStart(t, c)
    /\ \E id \in NewUuids :
          Started(t, c,
                  NewCall("submit", c,
                          BuildTraversalMessage(
                              TraversalAliases(client[c].alias), id),
                          Panic),
                  "done")
    /\ UNCHANGED <<codec, options, client, conns, probe, closeTaken>>

\* a close_session that reads the session and leaves it in place (C7 must
\* tell it from the code's)
KeepSession(session) == session

\* self.session.take() in close_session
TakeSession(session) == None

\* SessionedClient::close_session, up to self.pool.get()
CloseSession(t, c) ==
    /\ CanStart(t, c)
    /\ IF client[c].session = None
       THEN /\ Started(t, c,
                       NewCall("close", c, NoMessage,
                               GenericError("No session to close")),
                       "done")
            /\ UNCHANGED <<client, closeTaken>>
       ELSE /\ client' = [client EXCEPT ![c].session = TakeSession(@)]
            /\ closeTaken' = [closeTaken EXCEPT ![c] = @ + 1]
            /\ IF SerializerWrite(options.serializer) = "Panic"
               THEN Started(t, c, NewCall("close", c, NoMessage, Panic), "done")
               ELSE \E id \in NewUuids :
                       Started(t, c,
                               NewCall("close", c,
                                       CloseMessage(client[c].session, id),
                                       Pending),
                               "get")
    /\ UNCHANGED <<codec, options, conns, probe>>

\* an in-crate caller of send_message (pub(crate)): it checks a connection
\* out with self.pool.get() and hands it over with the encoded request
CrateSend(t, c) ==
    /\ CanStart(t, c)
    /\ \E id \in NewUuids :
          Started(t, c,
                  NewCall("send", c,
                          BuildTraversalMessage(
                              TraversalAliases(client[c].alias), id),
                          Pending),
                  "get")
    /\ UNCHANGED <<codec, options, client, conns, probe, closeTaken>>

\* --------------------------------------------------- Pool::get (r2d2)
PoolOf(c) == client[c].pool
Pool(t) == conns[PoolOf(call[t].client)]
Slots(t) == DOMAIN Pool(t)

\* an idle set that keeps the connections that are checked out (C12 must
\* tell it from the pool's)
IdleSlotsWithCheckedOut(t) == Slots(t)

IdleSlots(t) == {i \in Slots(t) : Pool(t)[i].st = "idle"}
MyConn(t) == Pool(t)[call[t].conn]

SetConn(t, rec) ==
    conns' = [conns EXCEPT ![PoolOf(call[t].client)][call[t].conn] = rec]

\* a thread's call ends without a connection in hand
Finish(t, outcome) ==
    /\ call' = [call EXCEPT ![t].outcome = outcome, ![t].conn = NoConn]
    /\ pc' = [pc EXCEPT ![t] = "done"]

\* self.pool.get(): an idle connection is taken out of the idle set and
\* tested with is_valid before it is handed to the caller. Connections are
\* interchangeable: the lowest idle slot is taken.
Checkout(t) ==
    /\ pc[t] = "get"
    /\ IdleSlots(t) # {}
    /\ LET i == CHOOSE j \in IdleSlots(t) : \A k \in IdleSlots(t) : j <= k
       IN /\ conns' = [conns EXCEPT ![PoolOf(call[t].client)][i].st = "testing"]
          /\ call' = [call EXCEPT ![t].conn = i]
    /\ probe' = [probe EXCEPT ![t] = NoProbe]
    /\ pc' = [pc EXCEPT ![t] = "probe"]
    /\ UNCHANGED <<codec, options, client, closeTaken, ncalls>>

\* self.pool.get()? fails: no connection became idle within the
\* connection timeout (all are checked out, or the replacement of the one
\* this checkout discarded was not established in time)
GetTimeout(t) ==
    /\ pc[t] = "get"
    /\ IdleSlots(t) = {} \/ probe[t].fate = "discarded"
    /\ Finish(t, PoolError)
    /\ probe' = [probe EXCEPT ![t] = NoProbe]
    /\ UNCHANGED <<codec, options, client, conns, closeTaken, ncalls>>

\* is_valid: the eval of g.inject(0) is built and sent
IsValidSend(t) ==
    /\ pc[t] = "probe"
    /\ \E id \in NewUuids :
          probe' = [probe EXCEPT ![t].writes =
                       <<BuildMessage("eval", "", IsValidArgs, id)>>]
    /\ SetConn(t, [MyConn(t) EXCEPT !.unread = @ + 1])
    /\ pc' = [pc EXCEPT ![t] = "probe_recv"]
    /\ UNCHANGED <<codec, options, client, call, closeTaken, ncalls>>

\* the end of a probe that read response r: Ok hands the connection to the
\* caller, an error makes the pool discard it and look for another one, a
\* panic unwinds the caller and the connection is lost to the pool
ProbeEnds(t, rec, r, result) ==
    /\ probe' = [probe EXCEPT ![t].result = result, ![t].last = r,
                              ![t].codes = Append(@, r.code),
                              ![t].fate = IF result.tag = "Ok" THEN "handed"
                                          ELSE IF result.tag = "Panic"
                                          THEN "lost"
                                          ELSE "discarded"]
    /\ IF result.tag = "Ok"
       THEN /\ SetConn(t, [rec EXCEPT !.st = "held"])
            /\ pc' = [pc EXCEPT ![t] = "have_conn"]
            /\ UNCHANGED call
       ELSE IF result.tag = "Panic"
       THEN /\ SetConn(t, [rec EXCEPT !.st = "lost"])
            /\ Finish(t, Panic)
       ELSE /\ SetConn(t, Replaced)
            /\ pc' = [pc EXCEPT ![t] = "get"]
            /\ call' = [call EXCEPT ![t].conn = NoConn]

\* is_valid: the first response is received, decoded and matched
IsValidRecv(t) ==
    /\ pc[t] = "probe_recv"
    /\ \E code \in Codes : \E r \in ProbeResponsesWith(code) :
          LET rec == [MyConn(t) EXCEPT !.unread = @ - 1]
          IN IF IoReadResponse(options.deserializer) = "Panic"
             THEN ProbeEnds(t, rec, r, Panic)
             ELSE IF IsValidFirst(r.code, options.credentials) = "Ok"
             THEN ProbeEnds(t, rec, r, OkResult(<<>>))
             ELSE IF IsValidFirst(r.code, options.credentials) = "Authenticate"
             THEN /\ probe' = [probe EXCEPT ![t].last = r,
                                            ![t].codes = Append(@, r.code)]
                  /\ SetConn(t, rec)
                  /\ pc' = [pc EXCEPT ![t] = "probe_auth"]
                  /\ UNCHANGED call
             ELSE ProbeEnds(t, rec, r, RequestError(r.code, r.message))
    /\ UNCHANGED <<codec, options, client, closeTaken, ncalls>>

\* is_valid, 407 arm: the authentication request is built and sent
IsValidAuthSend(t) ==
    /\ pc[t] = "probe_auth"
    /\ probe' = [probe EXCEPT ![t].writes =
                    Append(@, IsValidAuthMessage(probe[t].last)),
                              ![t].last = NoResponse]
    /\ SetConn(t, [MyConn(t) EXCEPT !.unread = @ + 1])
    /\ pc' = [pc EXCEPT ![t] = "probe_auth_recv"]
    /\ UNCHANGED <<codec, options, client, call, closeTaken, ncalls>>

\* is_valid, 407 arm: the response to the authentication request
IsValidAuthRecv(t) ==
    /\ pc[t] = "probe_auth_recv"
    /\ \E code \in Codes : \E r \in ProbeResponsesWith(code) :
          LET rec == [MyConn(t) EXCEPT !.unread = @ - 1]
          IN IF IoReadResponse(options.deserializer) = "Panic"
             THEN ProbeEnds(t, rec, r, Panic)
             ELSE IF IsValidSecond(r.code) = "Ok"
             THEN ProbeEnds(t, rec, r, OkResult(<<>>))
             ELSE ProbeEnds(t, rec, r, RequestError(r.code, r.message))
    /\ UNCHANGED <<codec, options, client, closeTaken, ncalls>>

\* conn.send(message)? or conn.recv()? fails inside is_valid
IsValidIoError(t) ==
    /\ pc[t] \in {"probe", "probe_recv", "probe_auth", "probe_auth_recv"}
    /\ probe' = [probe EXCEPT ![t].result = IoError("Io"),
                              ![t].last = NoResponse,
                              ![t].fate = "discarded"]
    /\ SetConn(t, Replaced)
    /\ pc' = [pc EXCEPT ![t] = "get"]
    /\ call' = [call EXCEPT ![t].conn = NoConn]
    /\ UNCHANGED <<codec, options, client, closeTaken, ncalls>>

\* ------------------------------------------ with the connection in hand
\* the call ends and its PooledConnection is dropped
FinishAndDrop(t, conn, outcome) ==
    /\ SetConn(t, PutBack(conn))
    /\ Finish(t, outcome)
    /\ probe' = [probe EXCEPT ![t] = NoProbe]

\* GremlinClient::execute after self.pool.get(): todo!()
ExecuteTodo(t) ==
    /\ pc[t] = "have_conn"
    /\ call[t].kind = "execute"
    /\ FinishAndDrop(t, MyConn(t), Panic)
    /\ UNCHANGED <<codec, options, client, closeTaken, ncalls>>

\* SessionedClient::close_session after self.pool.get(): todo!()
CloseSessionTodo(t) ==
    /\ pc[t] = "have_conn"
    /\ call[t].kind = "close"
    /\ FinishAndDrop(t, MyConn(t), Panic)
    /\ UNCHANGED <<codec, options, client, closeTaken, ncalls>>

\* GremlinClient::send_message: conn.send(msg)
SendMessage(t) ==
    /\ pc[t] = "have_conn"
    /\ call[t].kind = "send"
    /\ call' = [call EXCEPT ![t].writes = Append(@, call[t].msg)]
    /\ SetConn(t, [MyConn(t) EXCEPT !.unread = @ + 1])
    /\ probe' = [probe EXCEPT ![t] = NoProbe]
    /\ pc' = [pc EXCEPT ![t] = "sent"]
    /\ UNCHANGED <<codec, options, client, closeTaken, ncalls>>

\* what read_response returns for a decoded response; in the 407 arm with
\* credentials the arguments are serialized, the authentication message is
\* built, and todo!() ends the call before anything is written
ReadResponseOutcome(response) ==
    LET arm == ReadResponseMatch(response.code, options.credentials)
    IN IF arm = "Results"
       THEN ReadResults(options.deserializer, response.data)
       ELSE IF arm = "Empty" THEN OkResult(<<>>)
       ELSE IF arm = "Authenticate" THEN Panic
       ELSE ReadResponseError(response)

\* the requests read_response writes for a decoded response: none
ReadResponseWrites(response) == <<>>

\* how the server would answer the authentication request that follows a
\* 407, when the client has credentials to send one
ServerThen(r) ==
    IF r.code = 407 /\ options.credentials
    THEN {<<c>> : c \in Codes}
    ELSE {<<>>}

\* GremlinClient::read_response, called by send_message: conn.recv(), the
\* decoding of the response and the match on its status code. On Ok the
\* connection stays with the GResultSet that send_message returns.
ReadResponse(t) ==
    /\ pc[t] = "sent"
    /\ \E code \in Codes : \E r \in ResponsesWith(code) : \E then \in ServerThen(r) :
          LET rec == [MyConn(t) EXCEPT !.unread = @ - 1]
              decoded == IoReadResponse(options.deserializer) = "Ok"
              outcome == IF decoded THEN ReadResponseOutcome(r) ELSE Panic
              written == IF decoded THEN ReadResponseWrites(r) ELSE <<>>
              after == [call[t] EXCEPT !.reads = Append(@, r),
                                       !.writes = @ \o written,
                                       !.then = then,
                                       !.outcome = outcome]
          IN IF outcome.tag = "Ok"
             THEN /\ call' = [call EXCEPT ![t] = after]
                  /\ SetConn(t, rec)
                  /\ pc' = [pc EXCEPT ![t] = "result"]
             ELSE /\ call' = [call EXCEPT ![t] = [after EXCEPT !.conn = NoConn]]
                  /\ SetConn(t, PutBack(rec))
                  /\ pc' = [pc EXCEPT ![t] = "done"]
    /\ UNCHANGED <<codec, options, client, probe, closeTaken, ncalls>>

\* conn.send(msg)? or conn.recv()? fails inside send_message: the transport
\* is flagged broken and the error is returned
SendMessageIoError(t) ==
    /\ pc[t] \in {"have_conn", "sent"}
    /\ call[t].kind = "send"
    /\ FinishAndDrop(t, [MyConn(t) EXCEPT !.broken = TRUE], IoError("Io"))
    /\ UNCHANGED <<codec, options, client, closeTaken, ncalls>>

\* the caller drops the GResultSet: its connection goes back to the pool
DropResult(t) ==
    /\ pc[t] = "result"
    /\ SetConn(t, PutBack(MyConn(t)))
    /\ call' = [call EXCEPT ![t] = NoCall]
    /\ pc' = [pc EXCEPT ![t] = "idle"]
    /\ UNCHANGED <<codec, options, client, probe, closeTaken, ncalls>>

\* the caller has taken the error (or caught the panic) of a finished call
Return(t) ==
    /\ pc[t] = "done"
    /\ call' = [call EXCEPT ![t] = NoCall]
    /\ probe' = [probe EXCEPT ![t] = NoProbe]
    /\ pc' = [pc EXCEPT ![t] = "idle"]
    /\ UNCHANGED <<codec, options, client, conns, closeTaken, ncalls>>

Next ==
    \/ \E name \in SessionNames : CreateSession(name)
    \/ \E t \in Threads, c \in ClientIds : Execute(t, c)
    \/ \E t \in Threads, c \in ClientIds : SubmitTraversal(t, c)
    \/ \E t \in Threads, c \in ClientIds : CloseSession(t, c)
    \/ \E t \in Threads, c \in ClientIds : CrateSend(t, c)
    \/ \E t \in Threads : Checkout(t)
    \/ \E t \in Threads : GetTimeout(t)
    \/ \E t \in Threads : IsValidSend(t)
    \/ \E t \in Threads : IsValidRecv(t)
    \/ \E t \in Threads : IsValidAuthSend(t)
    \/ \E t \in Threads : IsValidAuthRecv(t)
    \/ \E t \in Threads : IsValidIoError(t)
    \/ \E t \in Threads : ExecuteTodo(t)
    \/ \E t \in Threads : CloseSessionTodo(t)
    \/ \E t \in Threads : SendMessage(t)
    \/ \E t \in Threads : ReadResponse(t)
    \/ \E t \in Threads : SendMessageIoError(t)
    \/ \E t \in Threads : DropResult(t)
    \/ \E t \in Threads : Return(t)

Spec == Init /\ [][Next]_vars

\* the same program with callers that also rebind the alias of a client
AliasNext ==
    \/ Next
    \/ \E c \in ClientIds, name \in AliasNames : Alias(c, name)

AliasSpec == Init /\ [][AliasNext]_vars

\* ------------------------------------------------------------ the claims
\* the call of thread t has returned to its caller (with a result sequence
\* that still holds the connection, or with an error or a panic)
Returned(t) == pc[t] \in {"done", "result"}

\* the deserializer configured decodes response envelopes
Decoded == IoReadResponse(options.deserializer) = "Ok"

IsAuthentication(m) == m.op = "authentication"
AuthenticationsIn(writes) ==
    Cardinality({i \in DOMAIN writes : IsAuthentication(writes[i])})

\* C1 (as claimed): once read_response has read a 407 with credentials
\* configured, it has written an authentication request to the traversal
\* processor carrying the request id of the 407 and the sasl argument, and
\* has gone on to read the next response.
C1_AuthenticationWrittenAfter407 ==
    \A t \in Threads :
        (/\ call[t].kind = "send"
         /\ Returned(t)
         /\ Decoded
         /\ options.credentials
         /\ Len(call[t].reads) >= 1
         /\ call[t].reads[1].code = 407)
        => /\ Len(call[t].writes) >= 2
           /\ call[t].writes[2] =
                  Message("authentication", "traversal",
                          call[t].reads[1].request_id, SaslArgs)
           /\ Len(call[t].reads) >= 2

\* C2 (as claimed): a cycle in which the server answers 407 and then 200,
\* with credentials configured, ends with two writes and two reads and with
\* the successful result returned to the caller.
C2_ChallengeThenSuccessIsTwoRoundTrips ==
    \A t \in Threads :
        (/\ Returned(t)
         /\ Decoded
         /\ options.credentials
         /\ Len(call[t].reads) >= 1
         /\ call[t].reads[1].code = 407
         /\ call[t].then = <<200>>)
        => /\ Len(call[t].writes) = 2
           /\ Len(call[t].reads) = 2
           /\ call[t].outcome.tag = "Ok"

LastRead(t) == call[t].reads[Len(call[t].reads)]

ElementsOf(data) ==
    IF data = NoData THEN <<>>
    ELSE IF data.t \in {"List", "Set"} THEN data.v
    ELSE <<data>>

C7_CloseWithoutSessionIsGenericError ==
    /\ \A t \in Threads :
        (call[t].kind = "close" /\ call[t].session = None)
        => /\ call[t].outcome = GenericError("No session to close")
           /\ call[t].msg = NoMessage
           /\ call[t].writes = <<>>
           /\ call[t].conn = NoConn
           /\ pc[t] = "done"
    /\ \A c \in ClientIds : closeTaken[c] <= 1
    /\ \A t \in Threads :
        (call[t].kind = "close" /\ call[t].msg # NoMessage)
        => /\ call[t].session # None
           /\ call[t].msg.op = "close"

\* C7 happens: a second close_session on a session client has returned
C7_Witness ==
    \E t \in Threads :
        /\ call[t].kind = "close"
        /\ call[t].client = "sess"
        /\ call[t].afterClose
        /\ call[t].outcome.tag = "Generic"

SessionHolders ==
    {t \in Threads : PoolOf(call[t].client) = "sess" /\ call[t].conn # NoConn}

\* C9: the pool of a session client never has more than one connection, so
\* at most one call has a connection of it in hand, and while one has, a
\* second call on the client finds none to check out: it waits, or fails
\* when the pool's timeout runs out.
C9_SessionPoolHasOneConnection ==
    /\ Cardinality(DOMAIN conns["sess"]) <= 1
    /\ client["sess"].exists => client["sess"].max_size = 1
    /\ Cardinality(SessionHolders) <= 1
    /\ \A t \in SessionHolders : \A u \in Threads :
          (PoolOf(call[u].client) = "sess" /\ pc[u] = "get")
          => /\ IdleSlots(u) = {}
             /\ ~ENABLED Checkout(u)
             /\ ENABLED GetTimeout(u)

\* C9 happens: with a parent pool of two connections, one call has the
\* session client's connection in hand and another waits for it
C9_Witness ==
    \E t, u \in Threads :
        /\ options.pool_size = 2
        /\ t \in SessionHolders
        /\ pc[t] = "have_conn"
        /\ call[u].client = "sess"
        /\ pc[u] = "get"

\* a probe has come to a verdict on the responses it read
ProbeDecided(t) == probe[t].result.tag \in {"Ok", "Request"}

\* the responses C10 counts as those of a healthy connection
HealthyCodes(codes) ==
    \/ codes[1] \in {200, 204, 206}
    \/ /\ Len(codes) = 2
       /\ codes[1] = 407
       /\ options.credentials
       /\ codes[2] \in {200, 204, 206, 401}

\* C10: the probe finds a connection healthy exactly when its eval is
\* answered 200, 204 or 206, or is answered 407 with credentials configured
\* and the authentication request that follows is answered 200, 204, 206 or
\* 401; every other answer makes it fail with the Request error of the
\* response read last, and the pool discards the connection.
C10_IsValidVerdict ==
    \A t \in Threads :
        ProbeDecided(t)
        => /\ probe[t].result.tag = "Ok" <=> HealthyCodes(probe[t].codes)
           /\ Len(probe[t].codes) = 2
              => /\ probe[t].codes[1] = 407
                 /\ options.credentials
                 /\ IsAuthentication(probe[t].writes[2])
           /\ probe[t].result.tag = "Ok" => probe[t].fate = "handed"
           /\ probe[t].result.tag = "Request"
              => /\ probe[t].result =
                        RequestError(probe[t].last.code, probe[t].last.message)
                 /\ probe[t].last.code =
                        probe[t].codes[Len(probe[t].codes)]
                 /\ probe[t].fate = "discarded"
                 /\ call[t].conn = NoConn

\* C10 happens: a probe answered 407 and then 401 has found its connection
\* healthy
C10_Witness ==
    \E t \in Threads :
        /\ probe[t].codes = <<407, 401>>
        /\ probe[t].result.tag = "Ok"
        /\ pc[t] = "have_conn"

\* the idle connections of a pool and those a call has taken out of it
IdleOf(p) == {i \in DOMAIN conns[p] : conns[p][i].st = "idle"}
CheckedOutOf(p) ==
    {i \in DOMAIN conns[p] :
        \E t \in Threads : PoolOf(call[t].client) = p /\ call[t].conn = i}

\* C11 (as claimed): in every state the idle connections of a pool and the
\* connections checked out of it are all the connections of the pool, and
\* there are at most max_size of them.
C11_IdlePlusCheckedOutIsPoolSize ==
    \A p \in PoolIds :
        /\ Cardinality(IdleOf(p)) + Cardinality(CheckedOutOf(p))
               = Cardinality(DOMAIN conns[p])
        /\ Cardinality(DOMAIN conns[p]) <= client[p].max_size

\* the calls that have a connection of pool p in hand to write or read on
InFlight(p) ==
    {t \in Threads :
        PoolOf(call[t].client) = p /\ pc[t] \in {"have_conn", "sent"}}

Origins == {"main", "sess"}

\* the alias map of the request a call has built
AliasesOf(t) == call[t].msg.args["aliases"]

\* what C15 says of the requests, and of the client alias is called on:
\* requests of the returned client map g to the name, bytecode requests of
\* a client without an alias map g to "g", and the alias, the session and
\* the pool size of the origin are what they were
AliasRebindsOnlyTheCopy ==
    /\ client["ali"].exists => client["ali"].alias \in AliasNames
    /\ \A t \in Threads :
          (call[t].client = "ali" /\ call[t].msg.op \in {"eval", "bytecode"})
          => AliasesOf(t) = GMap([g |-> GString(client["ali"].alias)])
    /\ \A t \in Threads :
          (/\ call[t].client \in Origins
           /\ call[t].msg # NoMessage
           /\ call[t].msg.op = "bytecode")
          => AliasesOf(t) = GMap([g |-> GString("g")])
    /\ \A c \in Origins : client[c].alias = None
    /\ client["main"].session = None
    /\ client["main"].max_size = options.pool_size
    /\ (client["sess"].exists /\ closeTaken["sess"] = 0)
       => client["sess"].session \in SessionNames
    /\ (client["ali"].exists /\ PoolOf("ali") = "main")
       => client["ali"].session = None

\* C15 (as claimed): alias rebinds the alias of the copy only, and the copy
\* shares no mutable state with the client it was made from.
C15_AliasGivesIndependentClient ==
    /\ AliasRebindsOnlyTheCopy
    /\ client["ali"].exists
       => \A c \in Origins : client[c].exists => PoolOf("ali") # PoolOf(c)

\* C15 (as the code has it): alias rebinds the alias of the copy only; the
\* copy has its own alias, session and options, and shares with the client
\* it was made from the connection pool and nothing else: the calls of both
\* check connections out of the one pool, each connection in the hands of
\* one call at a time.
C15_AliasSharesOnlyThePool ==
    /\ AliasRebindsOnlyTheCopy
    /\ client["ali"].exists
       => /\ PoolOf("ali") \in {PoolOf(c) : c \in {o \in Origins : client[o].exists}}
          /\ client["ali"].max_size = client[PoolOf("ali")].max_size
    /\ \A t, u \in Threads :
          (/\ t # u
           /\ call[t].conn # NoConn
           /\ call[u].conn # NoConn
           /\ PoolOf(call[t].client) = PoolOf(call[u].client))
          => call[t].conn # call[u].conn

\* C15 happens: a call on the copy has the only connection of the pool in
\* hand, the copy's request maps g to the name, and a call on the client it
\* was made from waits for a connection
C15_Witness ==
    \E t, u \in Threads :
        /\ call[t].client = "ali"
        /\ call[t].kind = "execute"
        /\ call[t].msg.op = "eval"
        /\ AliasesOf(t) = GMap([g |-> GString("a1")])
        /\ pc[t] = "have_conn"
        /\ call[u].client = "main"
        /\ PoolOf("ali") = "main"
        /\ pc[u] = "get"
        /\ IdleSlots(u) = {}

\* ------------------------------------------------ the codec on its own
Bytes == 0..255

\* no input of the model is longer
MaxInput == 64

\* UTF-8 bytes of the strings used below
Utf8Abc == <<97, 98, 99>>
Utf8V == <<86>>
Utf8Has == <<104, 97, 115>>
UuidBytes == <<0, 17, 34, 51, 68, 85, 102, 119, 136, 153, 170, 187, 204, 221, 238, 255>>

\* values without values inside them
Scalars ==
    <<BNull, BInt32(1), BInt32(-2), BInt64(300), BInt64(-1),
      BString(<<>>), BString(Utf8Abc), BDate(1000, 0), BDate(1000, 1),
      BDouble(<<63, 240, 0, 0, 0, 0, 0, 0>>), BFloat(<<63, 128, 0, 0>>),
      BUuid(UuidBytes), BScope("global"), BScope("local")>>

\* the values handed to the encoder: the scalars, collections of them,
\* collections nested once more, bytecode, and a vertex, which the encoder
\* does not take
Values ==
    Scalars
    \o <<BList(<<>>), BSet(<<>>), BMap(<<>>), BVertex>>
    \o [k \in 1..Len(Scalars) |-> BList(<<Scalars[k], BInt32(1)>>)]
    \o [k \in 1..Len(Scalars) |-> BSet(<<Scalars[k]>>)]
    \o [k \in 1..Len(Scalars) |-> BMap(<<<<BString(Utf8Abc), Scalars[k]>>>>)]
    \o <<BList(<<BMap(<<<<BString(Utf8Abc), BSet(<<BInt64(300)>>)>>>>)>>),
         BMap(<<<<BString(<<>>), BInt32(1)>>,
                <<BString(Utf8Abc), BList(<<BString(Utf8Abc)>>)>>>>),
         BList(<<BVertex>>),
         BBytecode(<<>>, <<>>),
         BBytecode(<<Instruction(Utf8V, <<>>),
                     Instruction(Utf8Has, <<BString(Utf8Abc), BInt32(1)>>)>>,
                   <<Instruction(Utf8Abc, <<BScope("local")>>)>>)>>

\* what a server may put in a response frame
FrameStatusCodes == {200, 40000}
FrameData == <<BNull, BInt32(1), BList(<<BString(Utf8Abc)>>)>>

\* (&value).to_be_bytes(&mut buf)
WriteValue(v) ==
    /\ codec.stage = "empty"
    /\ codec' = Buffer("written", v, GValueToBeBytes(v),
                       GValueToBeBytes(v).buf, "encoded", codec.result)
    /\ UNCHANGED <<options, client, conns, pc, call, probe, closeTaken, ncalls>>

\* the bytes of a response arrive
ReceiveFrame(version, status_code, data) ==
    /\ codec.stage = "empty"
    /\ codec' = Buffer("received", data, Written(<<>>),
                       ResponseFrame(version, UuidBytes, status_code, Utf8Abc,
                                     data),
                       "frame", codec.result)
    /\ UNCHANGED <<options, client, conns, pc, call, probe, closeTaken, ncalls>>

\* the input ends early: only the first n bytes are there
Truncate(n) ==
    /\ codec.stage \in {"written", "received"}
    /\ codec.origin \in {"encoded", "frame"}
    /\ codec.written.tag = "Ok"
    /\ n < Len(codec.bytes)
    /\ codec' = [codec EXCEPT !.bytes = SubSeq(codec.bytes, 1, n),
                              !.origin = "truncated"]
    /\ UNCHANGED <<options, client, conns, pc, call, probe, closeTaken, ncalls>>

\* the input has another type code in front
OverwriteTypeCode(b) ==
    /\ codec.stage = "written"
    /\ codec.origin = "encoded"
    /\ codec.written.tag = "Ok"
    /\ b # codec.bytes[1]
    /\ codec' = [codec EXCEPT !.bytes[1] = b, !.origin = "type_code"]
    /\ UNCHANGED <<options, client, conns, pc, call, probe, closeTaken, ncalls>>

\* the input has another value flag after its type code
OverwriteValueFlag(b) ==
    /\ codec.stage = "written"
    /\ codec.origin = "encoded"
    /\ codec.written.tag = "Ok"
    /\ b # codec.bytes[2]
    /\ codec' = [codec EXCEPT !.bytes[2] = b, !.origin = "value_flag"]
    /\ UNCHANGED <<options, client, conns, pc, call, probe, closeTaken, ncalls>>

\* GValue::from_be_bytes(&mut bytes.iter())
ReadValue ==
    /\ codec.stage = "written"
    /\ codec.written.tag = "Ok"
    /\ codec' = [codec EXCEPT !.stage = "read",
                              !.result.read = GValueFromBeBytes(codec.bytes)]
    /\ UNCHANGED <<options, client, conns, pc, call, probe, closeTaken, ncalls>>

\* ResponseMessage::from_be_bytes(&mut bytes.iter())
ReadResponseMessage ==
    /\ codec.stage = "received"
    /\ codec' = [codec EXCEPT !.stage = "responded",
                              !.result.envelope =
                                  ResponseMessageFromBeBytes(codec.bytes)]
    /\ UNCHANGED <<options, client, conns, pc, call, probe, closeTaken, ncalls>>

CodecInit ==
    /\ Init
    /\ options = [credentials |-> FALSE, serializer |-> "GraphBinaryV1",
                  deserializer |-> "GraphBinaryV1", pool_size |-> 1]

CodecNext ==
    \/ \E k \in 1..Len(Values) : WriteValue(Values[k])
    \/ \E version \in Bytes, status_code \in FrameStatusCodes,
          k \in 1..Len(FrameData) :
          ReceiveFrame(version, status_code, FrameData[k])
    \/ \E n \in 0..MaxInput : Truncate(n)
    \/ \E b \in Bytes : OverwriteTypeCode(b)
    \/ \E b \in Bytes : OverwriteValueFlag(b)
    \/ ReadValue
    \/ ReadResponseMessage

CodecSpec == CodecInit /\ [][CodecNext]_vars

\* ------------------------------------------------ claims on the codec
\* the encoder took the value and the decoder has read the bytes as written
ReadBack ==
    /\ codec.stage = "read"
    /\ codec.origin = "encoded"

\* C16: for every value the binary encoder accepts, decoding the bytes the
\* encoder produced returns a value equal to it (with nothing left over).
\* Fails: the decoder has no arm for the type codes of Null, Bytecode and
\* Scope and panics on them, alone or inside a collection, and a Date comes
\* back without what it had below the millisecond.
C16_DecodeOfEncodeIsTheValue ==
    ReadBack =>
        /\ codec.result.read.tag = "Ok"
        /\ codec.result.read.value = codec.value
        /\ codec.result.read.rest = <<>>

\* the encoder took the value
Encoded ==
    /\ codec.stage \in {"written", "read"}
    /\ codec.written.tag = "Ok"

\* the type code the format gives each variant
TypeCodeOf(t) ==
    CASE t = "Int32" -> 1 [] t = "Int64" -> 2 [] t = "String" -> 3
      [] t = "Date" -> 4 [] t = "Double" -> 7 [] t = "Float" -> 8
      [] t = "List" -> 9 [] t = "Map" -> 10 [] t = "Set" -> 11
      [] t = "Uuid" -> 12 [] t = "Bytecode" -> 21 [] t = "Scope" -> 31

RECURSIVE Flatten(_)
Flatten(seqs) == IF seqs = <<>> THEN <<>> ELSE Head(seqs) \o Flatten(Tail(seqs))

\* a 4-byte big-endian count n in front of what follows
Prefixed(payload, n, following) ==
    /\ Len(payload) >= 4
    /\ IntFromBeBytes(SubSeq(payload, 1, 4)) = n
    /\ SubSeq(payload, 5, Len(payload)) = following

\* the payload the format gives a present value
PayloadLayout(v, payload) ==
    CASE v.t = "Int32" -> Len(payload) = 4 /\ IntFromBeBytes(payload) = v.v[1]
      [] v.t \in {"Int64", "Date"} ->
             Len(payload) = 8 /\ IntFromBeBytes(payload) = v.v[1]
      [] v.t \in {"Double", "Float", "Uuid"} -> payload = v.v
      [] v.t = "String" -> Prefixed(payload, Len(v.v), v.v)
      [] v.t \in {"List", "Set"} ->
             Prefixed(payload, Len(v.v),
                      Flatten([k \in 1..Len(v.v) |-> GValueToBeBytes(v.v[k]).buf]))
      [] v.t = "Map" ->
             Prefixed(payload, Len(v.v),
                      Flatten([k \in 1..Len(v.v) |->
                                  GValueToBeBytes(v.v[k][1]).buf
                                      \o GValueToBeBytes(v.v[k][2]).buf]))
      [] OTHER -> TRUE

\* C17: every present value is written as its type code, the flag 0x00 and
\* its payload: scalars as raw big-endian bytes, strings as a 4-byte
\* big-endian byte length and the UTF-8 bytes, lists, sets and maps as a
\* 4-byte big-endian count and each element (each key, then its value) fully
\* qualified; Int32 1 is 01 00 00 00 00 01, the empty string 03 00 00 00 00 00.
C17_EncodedLayout ==
    (Encoded /\ codec.value.t # "Null") =>
        LET buf == codec.written.buf
        IN /\ Len(buf) >= 2
           /\ buf[1] = TypeCodeOf(codec.value.t)
           /\ buf[2] = 0
           /\ PayloadLayout(codec.value, SubSeq(buf, 3, Len(buf)))
           /\ (codec.value.t = "Int32" /\ codec.value.v = <<1>>)
                  => buf = <<1, 0, 0, 0, 0, 1>>
           /\ (codec.value.t = "String" /\ codec.value.v = <<>>)
                  => buf = <<3, 0, 0, 0, 0, 0>>
           /\ codec.value.t = "Uuid" => buf = <<12, 0>> \o codec.value.v

\* a map of two entries, one of them a list, has been written
C17_Witness ==
    /\ Encoded
    /\ codec.value.t = "Map"
    /\ Len(codec.value.v) = 2
    /\ codec.value.v[2][2].t = "List"
    /\ Len(codec.written.buf) > 6

\* the decoder has read an input that ends before the written value does
ReadTruncated ==
    /\ codec.stage = "read"
    /\ codec.origin = "truncated"

\* C18: decoding a value from input truncated at any point (nothing, a type
\* code without its flag, a flag without the whole payload, a string or a
\* collection shorter than its length prefix) is a Cast error, never a panic
\* and never a value. Fails: an input cut after a type code the decoder has
\* no arm for, such as the 0xFE of Null, panics (see C19).
C18_TruncatedInputIsCastError ==
    ReadTruncated => codec.result.read.tag = "Cast"

\* the type codes the decoder's match names
Recognised ==
    {INTEGER, LONG, STRING_TYPE, DATE, DOUBLE, FLOAT, LIST, MAP, SET, UUID,
     EDGE, PATH, PROPERTY, TRAVERSER}

\* the decoder has read an input whose first byte is no type code it names,
\* or whose second byte is no value flag
ReadUnrecognised ==
    /\ codec.stage = "read"
    /\ Len(codec.bytes) >= 2
    /\ \/ codec.bytes[1] \notin Recognised
       \/ codec.bytes[2] \notin {VALUE_FLAG, VALUE_NULL_FLAG}

\* C19: decoding a value whose type code the decoder does not recognise, or
\* whose value flag is neither 0x00 nor 0x01, is a Cast error for every such
\* byte; the decoder never aborts. Fails: every type code without an arm
\* ends in unimplemented!(), and Edge, Path and Property in todo!().
C19_UnrecognisedByteIsCastError ==
    ReadUnrecognised => codec.result.read.tag = "Cast"

\* the envelope decoder has returned
Responded == codec.stage = "responded"

\* the frame does not start with the version byte
BadVersion == codec.bytes = <<>> \/ codec.bytes[1] # VERSION_BYTE

\* C20: decoding a response envelope whose first byte is not 0x81, or that is
\* empty, is a Cast error before any other field is read, and a frame that
\* does not decode yields no response, not a part of one.
C20_BadVersionIsCastError ==
    Responded =>
        /\ BadVersion =>
               /\ codec.result.envelope.tag = "Cast"
               /\ codec.result.envelope.fields = <<>>
        /\ codec.result.envelope.tag # "Ok" =>
               codec.result.envelope.message = NoResponseMessage

\* a whole frame with another first byte has been refused
C20_Witness ==
    /\ Responded
    /\ codec.origin = "frame"
    /\ codec.bytes[1] = 128
    /\ codec.value.t = "List"
    /\ codec.result.envelope.tag = "Cast"

\* ------------------------------------------- the codec on longer inputs
\* length prefixes below zero
NegativeLengths == {-1, -128, -65536}

\* the variants whose payload starts with a 4-byte length
Prefixes == {"String", "List", "Set", "Map"}

\* what a server may put in the nullable and length-prefixed fields of a
\* response frame
FrameFlags == {VALUE_FLAG, VALUE_NULL_FLAG}
FrameLengths == {0, -1}
FrameCodes == {200, 204, 500}

\* the two values written one after the other into one buffer
WritePair(v1, v2) ==
    /\ codec.stage = "empty"
    /\ GValueToBeBytes(v1).tag = "Ok"
    /\ GValueToBeBytes(v2).tag = "Ok"
    /\ codec' = Buffer("written", [t |-> "Pair", v |-> <<v1, v2>>],
                       Written(GValueToBeBytes(v1).buf \o GValueToBeBytes(v2).buf),
                       GValueToBeBytes(v1).buf \o GValueToBeBytes(v2).buf,
                       "pair", codec.result)
    /\ UNCHANGED <<options, client, conns, pc, call, probe, closeTaken, ncalls>>

\* the first value of a pair flagged null: its type code, 0x01, no payload
NullFirst ==
    /\ codec.stage = "written"
    /\ codec.origin = "pair"
    /\ codec.bytes[1] \in Recognised \ {EDGE, PATH, PROPERTY}
    /\ codec' = [codec EXCEPT
                    !.bytes = <<codec.bytes[1], VALUE_NULL_FLAG>>
                                  \o GValueToBeBytes(codec.value.v[2]).buf,
                    !.origin = "null_pair"]
    /\ UNCHANGED <<options, client, conns, pc, call, probe, closeTaken, ncalls>>

\* GValue::from_be_bytes on the same iterator once more: it reads on from
\* where the value before ended
ReadNext ==
    /\ codec.stage = "read"
    /\ codec.origin \in {"pair", "null_pair"}
    /\ codec.result.read.tag = "Ok"
    /\ codec' = [codec EXCEPT
                    !.stage = "read_next",
                    !.bytes = codec.result.read.rest,
                    !.result.read = GValueFromBeBytes(codec.result.read.rest)]
    /\ UNCHANGED <<options, client, conns, pc, call, probe, closeTaken, ncalls>>

\* the input has a length prefix below zero
NegateLength(n) ==
    /\ codec.stage = "written"
    /\ codec.origin = "encoded"
    /\ codec.written.tag = "Ok"
    /\ codec.value.t \in Prefixes
    /\ codec' = [codec EXCEPT
                    !.bytes = SubSeq(codec.bytes, 1, 2) \o IntToBeBytes(n, 4)
                                  \o SubSeq(codec.bytes, 7, Len(codec.bytes)),
                    !.origin = "negative_length"]
    /\ UNCHANGED <<options, client, conns, pc, call, probe, closeTaken, ncalls>>

\* the bytes of a response whose request id or status message may be
\* flagged null and whose maps may have a length below zero
ResponseFrameWith(id_flag, code, message_flag, attributes, meta) ==
    <<VERSION_BYTE, id_flag>>
        \o (IF id_flag = VALUE_FLAG THEN UuidBytes ELSE <<>>)
        \o IntToBeBytes(code, 4)
        \o <<message_flag>>
        \o (IF message_flag = VALUE_FLAG THEN StrToBeBytes(Utf8Abc) ELSE <<>>)
        \o IntToBeBytes(attributes, 4) \o IntToBeBytes(meta, 4)
        \o GValueToBeBytes(BInt32(1)).buf

\* the bytes of such a response arrive
ReceiveFrameWith(id_flag, code, message_flag, attributes, meta) ==
    /\ codec.stage = "empty"
    /\ codec' = Buffer("received",
                       [t |-> "Frame",
                        v |-> [id_flag |-> id_flag, code |-> code,
                               message_flag |-> message_flag,
                               attributes |-> attributes, meta |-> meta]],
                       Written(<<>>),
                       ResponseFrameWith(id_flag, code, message_flag,
                                         attributes, meta),
                       "frame_with", codec.result)
    /\ UNCHANGED <<options, client, conns, pc, call, probe, closeTaken, ncalls>>

\* IoProtocol::GraphBinaryV1.content_type() as UTF-8:
\* "application/vnd.graphbinary-v1.0"
ContentTypeUtf8 ==
    <<97, 112,
      112, 108, 105, 99, 97, 116, 105, 111, 110, 47, 118, 110, 100, 46, 103, 114, 97, 112, 104, 98, 105, 110, 97, 114, 121, 45, 118, 49, 46, 48>>
Utf8Eval == <<101, 118, 97, 108>>
Utf8Gremlin == <<103, 114, 101, 109, 108, 105, 110>>

\* the header, the version byte, the request id, the op and the processor
RequestHead(request_id, op, processor) ==
    <<Len(ContentTypeUtf8)>> \o ContentTypeUtf8 \o <<VERSION_BYTE>>
        \o request_id \o StrToBeBytes(op) \o StrToBeBytes(processor)

\* impl GraphBinaryV1Ser for RequestMessage: the head, the number of args,
\* then each key and each value fully qualified
RequestMessageToBeBytes(request_id, op, processor, args) ==
    RequestHead(request_id, op, processor)
        \o IntToBeBytes(Len(args), 4)
        \o Flatten([k \in 1..Len(args) |->
                       GValueToBeBytes(args[k][1]).buf
                           \o GValueToBeBytes(args[k][2]).buf])

\* IoProtocol::build_eval_message, GraphBinaryV1 arm: the head with op
\* "eval" and the default processor, then (&GValue::from(args)).to_be_bytes
BuildEvalMessage(request_id, args) ==
    RequestHead(request_id, Utf8Eval, <<>>) \o GValueToBeBytes(BMap(args)).buf

\* the arguments of the requests of the model
RequestArgs ==
    <<<<>>,
      <<<<BString(Utf8Gremlin), BString(Utf8Abc)>>>>,
      <<<<BString(Utf8Gremlin), BString(Utf8Abc)>>,
        <<BString(Utf8Abc), BMap(<<<<BString(Utf8V), BInt32(1)>>>>)>>>>>>

\* a request is built into a buffer, by RequestMessage::to_be_bytes or by
\* build_eval_message
WriteRequest(builder, args) ==
    /\ codec.stage = "empty"
    /\ codec' = Buffer("request", [t |-> "Request", v |-> args],
                       Written(<<>>),
                       IF builder = "RequestMessage"
                       THEN RequestMessageToBeBytes(UuidBytes, Utf8Eval, <<>>, args)
                       ELSE BuildEvalMessage(UuidBytes, args),
                       builder, codec.result)
    /\ UNCHANGED <<options, client, conns, pc, call, probe, closeTaken, ncalls>>

WireNext ==
    \/ \E k \in 1..Len(Values) : WriteValue(Values[k])
    \/ \E k1 \in 1..Len(Values), k2 \in 1..Len(Values) :
          WritePair(Values[k1], Values[k2])
    \/ NullFirst
    \/ \E n \in NegativeLengths : NegateLength(n)
    \/ \E id_flag \in FrameFlags, code \in FrameCodes, message_flag \in FrameFlags,
          attributes \in FrameLengths, meta \in FrameLengths :
          ReceiveFrameWith(id_flag, code, message_flag, attributes, meta)
    \/ \E builder \in {"RequestMessage", "build_eval_message"},
          k \in 1..Len(RequestArgs) : WriteRequest(builder, RequestArgs[k])
    \/ ReadValue
    \/ ReadNext
    \/ ReadResponseMessage

WireSpec == CodecInit /\ [][WireNext]_vars

\* the decoder has read a string or a collection whose length is below zero
ReadNegativeLength ==
    /\ codec.stage = "read"
    /\ codec.origin = "negative_length"

\* the envelope decoder has read a frame with a map of a length below zero
RespondedNegativeLength ==
    /\ Responded
    /\ codec.origin = "frame_with"
    /\ codec.value.v.id_flag = VALUE_FLAG
    /\ codec.value.v.message_flag = VALUE_FLAG
    /\ codec.value.v.attributes < 0 \/ codec.value.v.meta < 0

\* C30: decoding a list, set, map or string whose 4-byte length prefix is
\* negative is a Cast error for every kind, the status-attribute and
\* result-metadata maps of a response included; a negative length is never
\* taken for an empty collection. Fails: the map decoder loops over
\* 0..map_length, which is empty for a negative length, and returns the
\* empty map.
C30_NegativeLengthIsCastError ==
    /\ ReadNegativeLength => codec.result.read.tag = "Cast"
    /\ RespondedNegativeLength => codec.result.envelope.tag = "Cast"

\* the decoder has read the first value of two written one after the other
ReadFirst ==
    /\ codec.stage = "read"
    /\ codec.origin \in {"pair", "null_pair"}

\* C29: decoding one fully-qualified value consumes exactly the bytes its
\* encoding produced: from encode(v1) ++ encode(v2) the decoder returns v1,
\* then v2, and the input is empty; a value flagged null consumes no
\* payload. Fails where the decoder does not return v1 at all: Null,
\* Bytecode and Scope panic (see C16, C19) and a Date below the millisecond
\* comes back changed (see C16).
C29_DecodingIsSelfDelimiting ==
    /\ (ReadFirst /\ codec.origin = "pair") =>
           /\ codec.result.read.tag = "Ok"
           /\ codec.result.read.value = codec.value.v[1]
    /\ (ReadFirst /\ codec.origin = "null_pair") =>
           /\ codec.result.read.tag = "Ok"
           /\ codec.result.read.value.t = "Null"
    /\ ReadFirst =>
           codec.result.read.rest = GValueToBeBytes(codec.value.v[2]).buf
    /\ codec.stage = "read_next" =>
           /\ codec.result.read.tag = "Ok"
           /\ codec.result.read.value = codec.value.v[2]
           /\ codec.result.read.rest = <<>>

\* #[serde(default, deserialize_with = "map_null_to_default")] on
\* ReponseStatus.message: a JSON status object whose message is missing or
\* null has the default String
MapNullToDefault(message) ==
    IF message \in {"missing", "null"} THEN "" ELSE message

\* serde_json::from_str::<ReponseStatus>
ReponseStatusFromJson(code, message) ==
    [code |-> code, message |-> MapNullToDefault(message)]

\* the envelope decoder has read a frame whose request id or status message
\* is flagged null
RespondedNull ==
    /\ Responded
    /\ codec.origin = "frame_with"
    /\ \/ codec.value.v.id_flag = VALUE_NULL_FLAG
       \/ codec.value.v.message_flag = VALUE_NULL_FLAG

\* C21: in every wire format a response whose status message is null or
\* omitted decodes, keeps its status code and has the message "": the JSON
\* status object without message or with null, and the binary envelope with
\* the status message (or the request id) flagged 0x01. Fails for the binary
\* envelope: both fields are read with from_be_bytes_nullable(..)?.expect(..),
\* which panics on None.
C21_NullStatusMessageIsEmpty ==
    /\ \A code \in FrameCodes, message \in {"missing", "null"} :
           ReponseStatusFromJson(code, message) = [code |-> code, message |-> ""]
    /\ RespondedNull =>
           /\ codec.result.envelope.tag = "Ok"
           /\ codec.result.envelope.message.status_code = codec.value.v.code
           /\ codec.value.v.message_flag = VALUE_NULL_FLAG =>
                  codec.result.envelope.message.status_message = <<>>

\* a request has been built
RequestBuilt == codec.stage = "request"

\* the bytes after the first n
From(bytes, n) == SubSeq(bytes, n + 1, Len(bytes))

\* C22: a binary request is one content-type length byte, the content type,
\* the version byte 0x81, the 16 request-id bytes, op and processor each as a
\* 4-byte length and UTF-8 bytes, then a 4-byte argument count followed
\* directly by each argument as a fully-qualified key and value, with no map
\* type code or flag before the count, for every builder. Fails:
\* build_eval_message writes its args as a GValue::Map, 0x0A 0x00 first.
C22_RequestEnvelopeLayout ==
    RequestBuilt =>
        LET args == codec.value.v
            content == From(codec.bytes, 1)
            version == From(content, codec.bytes[1])
            op == From(version, 17)
            processor == From(op, 4 + IntFromBeBytes(SubSeq(op, 1, 4)))
            count == From(processor, 4 + IntFromBeBytes(SubSeq(processor, 1, 4)))
        IN /\ codec.bytes[1] = 32
           /\ SubSeq(content, 1, 32) = ContentTypeUtf8
           /\ version[1] = 129
           /\ SubSeq(version, 2, 17) = UuidBytes
           /\ SubSeq(op, 1, 8) = <<0, 0, 0, 4>> \o Utf8Eval
           /\ SubSeq(processor, 1, 4) = <<0, 0, 0, 0>>
           /\ Prefixed(count, Len(args),
                       Flatten([k \in 1..Len(args) |->
                                   GValueToBeBytes(args[k][1]).buf
                                       \o GValueToBeBytes(args[k][2]).buf]))

\* ---------------------------------------------------------------------
\* the text codec: IoProtocol::write under GraphSONV2 and GraphSONV3
\* ---------------------------------------------------------------------

\* a GValue of the text codec: the variant and what it holds
GValue(t, v) == [t |-> t, v |-> v]

\* a GKey: String, Token, Vertex or Edge
GKey(k, v) == [k |-> k, v |-> v]

\* impl From<GKey> for GValue: a token becomes the string of its value
GKeyToGValue(val) ==
    CASE val.k = "String" -> GValue("String", val.v)
      [] val.k = "Token" -> GValue("String", val.v)
      [] val.k = "Vertex" -> GValue("Vertex", val.v)
      [] val.k = "Edge" -> GValue("Edge", val.v)

\* serde_json::Value
JString(s) == [string |-> s]
JNumber(n) == [number |-> n]
JBool(b) == [bool |-> b]
JArray(items) == [array |-> items]
JObject(members) == [object |-> members]

\* Value::as_str is Some
IsString(json) == "string" \in DOMAIN json

\* json!({"@type": type, "@value": value})
Typed(type, value) == JObject(("@type" :> JString(type)) @@ ("@value" :> value))

\* the outcome of a write: the JSON, GremlinError::Generic, or a panic
Json(json) == [tag |-> "Ok", json |-> json]
JsonGeneric == [tag |-> "Generic", json |-> JArray(<<>>)]
JsonPanic == [tag |-> "Panic", json |-> JArray(<<>>)]

\* the string written for a variant of T, Scope, Order, Cardinality, Merge,
\* Direction and Column
EnumName(type, variant) ==
    CASE type = "T" ->
             (CASE variant = "Id" -> "id" [] variant = "Key" -> "key"
                [] variant = "Label" -> "label" [] variant = "Value" -> "value")
      [] type = "Scope" ->
             (CASE variant = "Global" -> "global" [] variant = "Local" -> "local")
      [] type = "Order" ->
             (CASE variant = "Asc" -> "asc" [] variant = "Desc" -> "desc"
                [] variant = "Shuffle" -> "shuffle")
      [] type = "Cardinality" ->
             (CASE variant = "List" -> "list" [] variant = "Single" -> "single"
                [] variant = "Set" -> "set")
      [] type = "Merge" ->
             (CASE variant = "OnCreate" -> "onCreate" [] variant = "OnMatch" -> "onMatch"
                [] variant = "OutV" -> "outV" [] variant = "InV" -> "inV")
      [] type = "Direction" ->
             (CASE variant \in {"Out", "From"} -> "OUT"
                [] variant \in {"In", "To"} -> "IN")
      [] type = "Column" ->
             (CASE variant = "Keys" -> "keys" [] variant = "Values" -> "values")

Enumerations == {"T", "Scope", "Order", "Cardinality", "Merge", "Direction", "Column"}

\* the tag of a variant written as {"@type", "@value": number or string}
TagOf(type) ==
    CASE type = "Double" -> "g:Double" [] type = "Float" -> "g:Float"
      [] type = "Int32" -> "g:Int32" [] type = "Int64" -> "g:Int64"
      [] type = "Uuid" -> "g:UUID" [] type = "Date" -> "g:Date"

\* a write that went well continues with its JSON, another one is returned
JsonThen(r, Then(_)) == IF r.tag = "Ok" THEN Then(r.json) ELSE r

RECURSIVE WriteGraphson(_, _)
RECURSIVE WriteEach(_, _, _)
RECURSIVE WriteInstructions(_, _, _)
RECURSIVE WriteParamsV2(_, _, _)
RECURSIVE WriteParamsV3(_, _, _)

\* values.iter().map(|e| self.write(e)).collect(), after done
WriteEach(protocol, values, done) ==
    IF values = <<>> THEN Json(JArray(done))
    ELSE JsonThen(WriteGraphson(protocol, Head(values)),
                  LAMBDA e : WriteEach(protocol, Tail(values), Append(done, e)))

\* the steps or the sources of a bytecode: [operator, argument, ...] each
WriteInstructions(protocol, instructions, done) ==
    IF instructions = <<>> THEN Json(JArray(done))
    ELSE JsonThen(WriteEach(protocol, Head(instructions).args,
                            <<JString(Head(instructions).operator)>>),
                  LAMBDA i : WriteInstructions(protocol, Tail(instructions),
                                               Append(done, i)))

\* the Map arm of GraphSONV3: params.push(key); params.push(value)
WriteParamsV3(protocol, entries, params) ==
    IF entries = <<>> THEN Json(Typed("g:Map", JArray(params)))
    ELSE JsonThen(WriteGraphson(protocol, GKeyToGValue(Head(entries)[1])),
             LAMBDA k :
                 JsonThen(WriteGraphson(protocol, Head(entries)[2]),
                     LAMBDA v :
                         WriteParamsV3(protocol, Tail(entries),
                                       params \o <<k, v>>)))

\* a GraphSONV2 that tags and flattens its maps as GraphSONV3 does (C23 must
\* tell it from the code's)
WriteParamsTagged(protocol, entries, params) ==
    WriteParamsV3(protocol, entries, params)

\* the Map arm of GraphSONV2: params.insert(key as a string, value)
WriteParamsV2(protocol, entries, params) ==
    IF entries = <<>> THEN Json(JObject(params))
    ELSE JsonThen(WriteGraphson(protocol, GKeyToGValue(Head(entries)[1])),
             LAMBDA k :
                 IF ~IsString(k) THEN JsonGeneric
                 ELSE JsonThen(WriteGraphson(protocol, Head(entries)[2]),
                          LAMBDA v :
                              WriteParamsV2(protocol, Tail(entries),
                                  (k.string :> v) @@ params)))

\* IoProtocol::write_graphson
WriteGraphson(protocol, value) ==
    CASE value.t \in {"Double", "Float", "Int32", "Int64", "Date"} ->
             Json(Typed(TagOf(value.t), JNumber(value.v)))
      [] value.t = "Uuid" -> Json(Typed("g:UUID", JString(value.v)))
      [] value.t = "String" -> Json(JString(value.v))
      [] value.t = "Bool" -> Json(JBool(value.v))
      [] value.t = "List" /\ protocol = "GraphSONV2" ->
             WriteEach(protocol, value.v, <<>>)
      [] value.t = "List" /\ protocol = "GraphSONV3" ->
             JsonThen(WriteEach(protocol, value.v, <<>>),
                      LAMBDA elements : Json(Typed("g:List", elements)))
      [] value.t \in {"P", "TextP"} ->
             JsonThen(WriteGraphson(protocol, value.v.value),
                 LAMBDA v : Json(Typed(IF value.t = "P" THEN "g:P" ELSE "g:TextP",
                     JObject(("predicate" :> JString(value.v.operator))
                                 @@ ("value" :> v)))))
      [] value.t = "Bytecode" ->
             JsonThen(WriteInstructions(protocol, value.v.steps, <<>>),
                 LAMBDA steps :
                     JsonThen(WriteInstructions(protocol, value.v.sources, <<>>),
                         LAMBDA sources : Json(Typed("g:Bytecode",
                             JObject(("step" :> steps) @@ ("source" :> sources))))))
      [] value.t = "Vertex" ->
             JsonThen(WriteGraphson(protocol, value.v),
                 LAMBDA id : Json(Typed("g:Vertex", JObject("id" :> id))))
      [] value.t = "Map" /\ protocol = "GraphSONV2" ->
             WriteParamsV2(protocol, value.v, <<>>)
      [] value.t = "Map" /\ protocol = "GraphSONV3" ->
             WriteParamsV3(protocol, value.v, <<>>)
      [] value.t \in Enumerations ->
             Json(Typed("g:" \o value.t, JString(EnumName(value.t, value.v))))
      [] OTHER -> JsonPanic

\* ---------------------------------------------------------------------
\* values on their own: written as text, converted to keys and to scalars
\* ---------------------------------------------------------------------

\* values without a list or a map inside them
TextScalars ==
    <<GValue("Int32", 1), GValue("Int64", 1), GValue("Float", 1),
      GValue("Double", 1), GValue("String", "abc"), GValue("String", "OUT"),
      GValue("Bool", TRUE), GValue("Uuid", "00112233-4455-6677-8899-aabbccddeeff"),
      GValue("Date", 1000),
      GValue("Direction", "Out"), GValue("Direction", "In"),
      GValue("Direction", "From"), GValue("Direction", "To"),
      GValue("Scope", "Global"), GValue("T", "Id"), GValue("Order", "Asc"),
      GValue("Cardinality", "Single"), GValue("Merge", "OnCreate"),
      GValue("Column", "Keys"), GValue("Vertex", GValue("Int64", 1)),
      GValue("P", [operator |-> "eq", value |-> GValue("Int32", 1)]),
      GValue("TextP", [operator |-> "containing", value |-> GValue("String", "abc")]),
      GValue("Bytecode",
             [steps |-> <<Instruction("V", <<>>),
                          Instruction("has", <<GValue("String", "abc"),
                                               GValue("Int32", 1)>>)>>,
              sources |-> <<>>]),
      GValue("Null", <<>>), GValue("Set", <<GValue("Int32", 1)>>)>>

\* the keys of the maps of the model
TextKeys ==
    <<GKey("String", "abc"), GKey("Token", "abc"), GKey("String", "id"),
      GKey("Vertex", GValue("Int64", 1)), GKey("Edge", GValue("Int64", 1))>>

\* lists and maps, in the order their entries are iterated
TextCollections ==
    <<GValue("List", <<>>), GValue("Map", <<>>),
      GValue("List", <<GValue("Int32", 1), GValue("Int32", 1)>>),
      GValue("List", <<GValue("String", "abc"), GValue("Direction", "From")>>),
      GValue("List", <<GValue("List", <<GValue("Int32", 1)>>)>>),
      GValue("List", <<GValue("Null", <<>>)>>),
      GValue("List", <<GValue("Bool", TRUE)>>),
      GValue("List", <<GValue("Int64", 1)>>),
      GValue("P", [operator |-> "within",
                   value |-> GValue("List", <<GValue("Int32", 1)>>)]),
      GValue("Map", <<<<GKey("String", "abc"), GValue("Int32", 1)>>,
                      <<GKey("String", "id"), GValue("List", <<>>)>>>>),
      GValue("Map", <<<<GKey("Token", "abc"), GValue("Int32", 1)>>,
                      <<GKey("String", "abc"), GValue("Int64", 1)>>>>)>>
    \o [k \in 1..Len(TextKeys) |-> GValue("Map", <<<<TextKeys[k], GValue("Int32", 1)>>>>)]

TextValues == TextScalars \o TextCollections

\* what has been written as text: the values and the outcomes, in order
Text(values, outcomes) == [t |-> "Text", v |-> values, outcomes |-> outcomes]

\* IoProtocol::write(value) under the serializer of the options
WriteText(value) ==
    /\ codec.stage = "empty"
    /\ codec' = Buffer("json", Text(<<value>>,
                                    <<WriteGraphson(options.serializer, value)>>),
                       Written(<<>>), <<>>, options.serializer, codec.result)
    /\ UNCHANGED <<options, client, conns, pc, call, probe, closeTaken, ncalls>>

\* a second IoProtocol::write under the same serializer
WriteTextAgain(value) ==
    /\ codec.stage = "json"
    /\ codec' = Buffer("json_again",
                       Text(Append(codec.value.v, value),
                            Append(codec.value.outcomes,
                                   WriteGraphson(options.serializer, value))),
                       Written(<<>>), <<>>, options.serializer, codec.result)
    /\ UNCHANGED <<options, client, conns, pc, call, probe, closeTaken, ncalls>>

\* what a key has been converted to
Keys(keys, outcomes) == [t |-> "Keys", v |-> keys, outcomes |-> outcomes]

\* GValue::from(key), for two keys
ConvertKeys(k1, k2) ==
    /\ codec.stage = "empty"
    /\ codec' = Buffer("keys", Keys(<<k1, k2>>,
                                    <<GKeyToGValue(k1), GKeyToGValue(k2)>>),
                       Written(<<>>), <<>>, "from", codec.result)
    /\ UNCHANGED <<options, client, conns, pc, call, probe, closeTaken, ncalls>>

\* the native types a value is converted to, and the variant of each
Natives == {"String", "i32", "i64", "f32", "f64", "Uuid", "DateTime<Utc>", "bool"}
VariantOf(native) ==
    CASE native = "String" -> "String" [] native = "i32" -> "Int32"
      [] native = "i64" -> "Int64" [] native = "f32" -> "Float"
      [] native = "f64" -> "Double" [] native = "Uuid" -> "Uuid"
      [] native = "DateTime<Utc>" -> "Date" [] native = "bool" -> "Bool"

\* the outcome of a conversion: the native value, or GremlinError::Cast with
\* the source and the target its message names
Native(x) == [tag |-> "Ok", x |-> <<x>>, source |-> "", target |-> ""]
Cast(source, target) == [tag |-> "Cast", x |-> <<>>, source |-> source, target |-> target]

\* the target named by "Cannot cast {:?} to ..." in each try_from
NamedBy(native) == IF native = "i64" THEN "i32" ELSE native

\* the try_from with a GValue::List(s) => from_list(s) arm
WithListArm == {"String", "i32", "i64", "f32", "f64"}

\* impl TryFrom<GValue> for String, i32, i64, f32, f64, Uuid, Date, bool,
\* with from_list: a list of one element converts as that element does
RECURSIVE TryFrom(_, _)
TryFrom(native, value) ==
    IF value.t = VariantOf(native) THEN Native(value.v)
    ELSE IF value.t = "List" /\ native \in WithListArm
         THEN IF Len(value.v) = 1 THEN TryFrom(native, value.v[1])
              ELSE Cast("List", "String")
         ELSE Cast(value.t, NamedBy(native))

\* what a value has been converted to
Taken(value, native, outcome) ==
    [t |-> "Taken", v |-> value, native |-> native, outcome |-> outcome]

\* value.try_into() for a native type
TryInto(native, value) ==
    /\ codec.stage = "empty"
    /\ codec' = Buffer("taken", Taken(value, native, TryFrom(native, value)),
                       Written(<<>>), <<>>, "try_from", codec.result)
    /\ UNCHANGED <<options, client, conns, pc, call, probe, closeTaken, ncalls>>

\* a client of one connection without credentials that writes text
ValueInit ==
    /\ Init
    /\ ~options.credentials
    /\ options.pool_size = 1
    /\ options.serializer \in {"GraphSONV2", "GraphSONV3"}
    /\ options.deserializer = options.serializer

ValueNext ==
    \/ \E k \in 1..Len(TextValues) : WriteText(TextValues[k])
    \/ \E k \in 1..Len(TextValues) : WriteTextAgain(TextValues[k])
    \/ \E k1 \in 1..Len(TextKeys), k2 \in 1..Len(TextKeys) :
          ConvertKeys(TextKeys[k1], TextKeys[k2])
    \/ \E native \in Natives, k \in 1..Len(TextValues) :
          TryInto(native, TextValues[k])

ValueSpec == ValueInit /\ [][ValueNext]_vars

\* a value has been written as text: the last one and its outcome
WrittenText == codec.stage \in {"json", "json_again"}
LastValue == codec.value.v[Len(codec.value.v)]
LastOutcome == codec.value.outcomes[Len(codec.value.outcomes)]

\* the same variant holding the same
SameValue(a, b) == a.t = b.t /\ a.v = b.v

\* the other version of the text codec
OtherVersion(protocol) ==
    IF protocol = "GraphSONV2" THEN "GraphSONV3" ELSE "GraphSONV2"

\* no list and no map in the value or inside it
RECURSIVE NoCollection(_)
NoCollection(value) ==
    CASE value.t \in {"List", "Map"} -> FALSE
      [] value.t \in {"P", "TextP"} -> NoCollection(value.v.value)
      [] value.t = "Vertex" -> NoCollection(value.v)
      [] value.t = "Bytecode" ->
             \A i \in 1..Len(value.v.steps \o value.v.sources) :
                 \A a \in 1..Len((value.v.steps \o value.v.sources)[i].args) :
                     NoCollection((value.v.steps \o value.v.sources)[i].args[a])
      [] OTHER -> TRUE

\* every one of the values can be written
AllWritten(protocol, values) ==
    \A k \in 1..Len(values) : WriteGraphson(protocol, values[k]).tag = "Ok"

\* the JSON of each of the values
EachJson(protocol, values) ==
    [k \in 1..Len(values) |-> WriteGraphson(protocol, values[k]).json]

\* the keys of a map as values, and its values
KeysOf(entries) == [k \in 1..Len(entries) |-> GKeyToGValue(entries[k][1])]
ValuesOf(entries) == [k \in 1..Len(entries) |-> entries[k][2]]

\* C23: the two text versions differ only in collections. GraphSONV2 writes a
\* list as a bare array and a map as a bare object keyed by strings;
\* GraphSONV3 writes a list as {"@type": "g:List", "@value": [...]} and a map
\* as {"@type": "g:Map", "@value": [k0, v0, k1, v1, ...]}; a value with no
\* list or map inside is written the same by both.
C23_VersionsDifferOnlyInCollections ==
    WrittenText =>
        LET protocol == codec.origin
            items == LastValue.v
        IN /\ NoCollection(LastValue) =>
                  LastOutcome = WriteGraphson(OtherVersion(protocol), LastValue)
           /\ (LastValue.t = "List" /\ AllWritten(protocol, items)) =>
                  /\ protocol = "GraphSONV2" =>
                         LastOutcome = Json(JArray(EachJson(protocol, items)))
                  /\ protocol = "GraphSONV3" =>
                         LastOutcome =
                             Json(Typed("g:List", JArray(EachJson(protocol, items))))
           /\ (LastValue.t = "Map" /\ LastOutcome.tag = "Ok") =>
                  /\ protocol = "GraphSONV2" =>
                         /\ DOMAIN LastOutcome.json = {"object"}
                         /\ DOMAIN LastOutcome.json.object =
                                {KeysOf(items)[k].v : k \in 1..Len(items)}
                         /\ \A k \in 1..Len(items) :
                                /\ KeysOf(items)[k].t = "String"
                                /\ \E n \in 1..Len(items) :
                                       /\ SameValue(KeysOf(items)[n], KeysOf(items)[k])
                                       /\ LastOutcome.json.object[KeysOf(items)[k].v] =
                                              EachJson(protocol, ValuesOf(items))[n]
                  /\ protocol = "GraphSONV3" =>
                         LastOutcome =
                             Json(Typed("g:Map",
                                 JArray(Flatten([k \in 1..Len(items) |->
                                     <<EachJson(protocol, KeysOf(items))[k],
                                       EachJson(protocol, ValuesOf(items))[k]>>]))))

\* a map of two entries has been written by GraphSONV2 and one by GraphSONV3
C23_Witness ==
    /\ codec.stage = "json_again"
    /\ codec.value.v[1].t = "Map" /\ Len(codec.value.v[1].v) = 2
    /\ codec.value.outcomes[1].tag = "Ok"
    /\ codec.value.v[2].t = "List" /\ Len(codec.value.v[2].v) = 2
    /\ codec.value.outcomes[2].tag = "Ok"

\* C24: decoding what a text version wrote for a value returns that value,
\* for every Direction and for maps with any key; so two values that are
\* written to the same JSON by the same version are one value. Fails:
\* Direction::From is written as Direction::Out is, Direction::To as
\* Direction::In, and a Token key as the String key of its value.
C24_TextEncoderIsInjective ==
    (/\ codec.stage = "json_again"
     /\ codec.value.outcomes[1].tag = "Ok"
     /\ codec.value.outcomes[2] = codec.value.outcomes[1])
        => SameValue(codec.value.v[2], codec.value.v[1])

\* C25: every key converts to a value and back to itself through the guarded
\* conversion from values to keys, so two different keys never convert to
\* the same value. Fails: GKey::Token(s) and GKey::String(s) both become
\* GValue::String(s).
C25_KeyToValueIsInjective ==
    (codec.stage = "keys" /\ SameValue(codec.value.outcomes[1], codec.value.outcomes[2]))
        => /\ codec.value.v[1].k = codec.value.v[2].k
           /\ codec.value.v[1].v = codec.value.v[2].v

\* the claimed conversion: the variant of the target, or a list of exactly
\* one element that converts
RECURSIVE Converts(_, _)
Converts(native, value) ==
    \/ value.t = VariantOf(native)
    \/ /\ value.t = "List"
       /\ Len(value.v) = 1
       /\ Converts(native, value.v[1])

\* C26: a value converts to a native scalar exactly when its variant is the
\* target's or it is a list of exactly one element that converts; otherwise
\* the conversion fails with a Cast error naming the source variant and the
\* target type. Fails: Uuid, Date and bool do not unwrap a list, the i64
\* message names i32 and the from_list message names String.
C26_ScalarConversion ==
    codec.stage = "taken" =>
        /\ codec.value.outcome.tag = "Ok" <=> Converts(codec.value.native, codec.value.v)
        /\ codec.value.outcome.tag # "Ok" =>
               /\ codec.value.outcome.tag = "Cast"
               /\ codec.value.outcome.source = codec.value.v.t
               /\ codec.value.outcome.target = codec.value.native

\* ---------------------------------------------------------------------
\* the probe and the session, on the client and its pool
\* ---------------------------------------------------------------------

\* is_valid has returned or unwound
ProbeOver(t) == probe[t].result.tag # "Pending"

\* C27: when is_valid returns Ok every request it wrote has had its response
\* read, after one write and one read or two writes and two reads, so that
\* no idle connection has a response unread; and a probe that does not
\* return Ok, because a send, a receive or the decoding failed, returns an
\* error. Fails: with the GraphBinaryV1 deserializer the decoding is a
\* todo!() and the probe panics.
C27_ProbeReadsWhatItWrote ==
    /\ \A t \in Threads :
          probe[t].result.tag = "Ok"
          => /\ Len(probe[t].writes) = Len(probe[t].codes)
             /\ Len(probe[t].writes) \in {1, 2}
             /\ call[t].conn # NoConn => MyConn(t).unread = 0
    /\ \A p \in PoolIds : \A i \in DOMAIN conns[p] :
          conns[p][i].st = "idle" => conns[p][i].unread = 0
    /\ \A t \in Threads :
          (ProbeOver(t) /\ probe[t].result.tag # "Ok")
          => /\ probe[t].result.tag \in {"Request", "Io"}
             /\ probe[t].fate = "discarded"

\* a close_session on a client with a session has ended without its request
\* written
CloseFailedUnsent(t) ==
    /\ pc[t] = "done"
    /\ call[t].kind = "close"
    /\ call[t].session # None
    /\ call[t].writes = <<>>
    /\ call[t].outcome.tag # "Ok"

\* C28: a close_session that fails before its request is sent, because the
\* arguments cannot be written or no connection is got from the pool, leaves
\* the session of the client as it was, so that later calls still go to the
\* 'session' processor and the session can still be closed. Fails:
\* self.session.take() comes first and nothing puts the session back.
C28_FailedCloseKeepsSession ==
    \A t \in Threads :
        CloseFailedUnsent(t)
        => /\ client[call[t].client].session = call[t].session
           /\ ExecuteProcessor(client[call[t].client].session) = "session"

====
